---- MODULE Spec2Model ----
(***************************************************************************)
(* Model of the Issued library index: the scan engine (server/scanner.py), *)
(* the index repository (server/repository.py) and the filesystem they      *)
(* reconcile.                                                               *)
(*                                                                          *)
(* Strings are sequences of one-character strings, names are strings, and  *)
(* a Path is the sequence of its parts below the filesystem root, as in    *)
(* pathlib.  The persisted paths are strings, so that SQL LIKE and         *)
(* str.replace act on characters as they do in the program.                *)
(***************************************************************************)
EXTENDS Integers, Sequences, FiniteSets, TLC

VARIABLES
    dirs,       \* directories that exist on disk (absolute Paths)
    files,      \* file Path -> [mtime, content] for the files on disk
    folders,    \* table "folders": set of rows
    comics,     \* table "comics": set of rows
    metadata,   \* table "metadata": set of rows
    thumbs,     \* thumbnails_dir: uuids u for which <u>.jpg exists
    nextUuid,   \* uuid4 source: the next identifier never issued before
    now,        \* wall clock (datetime.now); it ticks once per operation
    lastOp,     \* the last thing that happened: its arguments and what it returned
    before,     \* the index and the thumbnails as they were when lastOp began
    fsOps,      \* number of filesystem changes made so far
    task_queue,       \* queue.Queue of MonitorTask, oldest first
    _last_modified,   \* ComicLibraryHandler._last_modified: path -> time
    stop_event,       \* threading.Event given to process_queue
    pc,               \* where the worker thread is in process_queue
    batch,            \* the batch being accumulated, optimized or dispatched
    start_time,       \* the time the first task of the batch was taken
    optimized_tasks,  \* optimize_tasks(batch)
    next_task,        \* position of the dispatch loop in optimized_tasks
    clock,            \* time.time(), in seconds
    worker_log,       \* what the worker dispatched, in order
    batches,          \* number of batches the worker has begun
    events,           \* number of filesystem events delivered so far
    fired,            \* path -> time of its last modified event that put a task
    main              \* where the main thread is in serve

monitorVars ==
    <<task_queue, _last_modified, stop_event, pc, batch, start_time, optimized_tasks, next_task,
      clock, worker_log, batches, events, fired, main>>

vars ==
    <<dirs, files, folders, comics, metadata, thumbs, nextUuid, now, lastOp, before, fsOps,
      task_queue, _last_modified, stop_event, pc, batch, start_time, optimized_tasks, next_task,
      clock, worker_log, batches, events, fired, main>>

(* NULL in an integer column (ids and clock readings start at 1), and an    *)
(* absent text.                                                            *)
Null == 0
NoText == <<>>

-----------------------------------------------------------------------------
(* Bounds of the model *)

MaxFsOps == 1
MaxOps == 3
MaxMtime == 2
MaxEvents == 3
MaxTicks == 2
MaxLongTicks == 4
MaxBatchOps == 2

(* MonitoringConfig.debounce_seconds and BATCH_WINDOW, in seconds *)
debounce_seconds == 2
BATCH_WINDOW == 1

-----------------------------------------------------------------------------
(* Strings *)

Slash == "/"
Dot == <<".">>

Lower(c) ==
    CASE c = "A" -> "a"
      [] c = "B" -> "b"
      [] c = "S" -> "s"
      [] c = "X" -> "x"
      [] c = "C" -> "c"
      [] c = "Z" -> "z"
      [] c = "K" -> "k"
      [] c = "R" -> "r"
      [] OTHER -> c

LowerStr(s) == [i \in 1..Len(s) |-> Lower(s[i])]

StartsWith(s, p) == Len(p) <= Len(s) /\ SubSeq(s, 1, Len(p)) = p

Drop(s, n) == SubSeq(s, n + 1, Len(s))

RECURSIVE RStripSlash(_)
RStripSlash(s) ==
    IF s # <<>> /\ s[Len(s)] = Slash THEN RStripSlash(SubSeq(s, 1, Len(s) - 1)) ELSE s

(* SQLite's LIKE: % matches any run of characters, _ any one character,    *)
(* every other character matches itself without regard to ASCII case.      *)
RECURSIVE Like(_, _)
Like(s, pat) ==
    IF pat = <<>> THEN s = <<>>
    ELSE IF pat[1] = "%" THEN \E k \in 0..Len(s) : Like(Drop(s, k), Tail(pat))
    ELSE IF s = <<>> THEN FALSE
    ELSE IF pat[1] = "_" THEN Like(Tail(s), Tail(pat))
    ELSE Lower(s[1]) = Lower(pat[1]) /\ Like(Tail(s), Tail(pat))

(* col.like(f"{rel}/%") *)
LikeUnder(s, rel) == Like(s, rel \o <<Slash, "%">>)

(* Index of the first occurrence of old in s, 0 when there is none. *)
Find(s, old) ==
    LET hits == {i \in 1..(Len(s) - Len(old) + 1) : SubSeq(s, i, i + Len(old) - 1) = old}
    IN  IF hits = {} THEN 0 ELSE CHOOSE i \in hits : \A j \in hits : i <= j

(* str.replace(old, new, 1) *)
ReplaceFirst(s, old, new) ==
    LET i == Find(s, old)
    IN  IF i = 0 THEN s
        ELSE SubSeq(s, 1, i - 1) \o new \o Drop(s, i + Len(old) - 1)

-----------------------------------------------------------------------------
(* Paths *)

RECURSIVE Join(_)
Join(parts) ==
    IF parts = <<>> THEN <<>>
    ELSE IF Len(parts) = 1 THEN parts[1]
    ELSE parts[1] \o <<Slash>> \o Join(Tail(parts))

(* The parts of a relative path string; "." parts vanish as in pathlib. *)
RECURSIVE Split(_)
Split(s) ==
    IF s = <<>> THEN <<>>
    ELSE LET cut == Find(s, <<Slash>>)
             head == IF cut = 0 THEN s ELSE SubSeq(s, 1, cut - 1)
             rest == IF cut = 0 THEN <<>> ELSE Drop(s, cut)
         IN  (IF head = <<>> \/ head = Dot THEN <<>> ELSE <<head>>) \o Split(rest)

LibraryRoot == << <<"L">> >>

Parent(p) == IF p = <<>> THEN p ELSE SubSeq(p, 1, Len(p) - 1)

Name(p) == IF p = <<>> THEN <<>> ELSE p[Len(p)]

(* Path.is_relative_to *)
IsRelativeTo(p, base) == StartsWith(p, base)

(* Path.suffix: from the last dot of the name, unless the name starts or   *)
(* ends there.                                                             *)
Suffix(p) ==
    LET n == Name(p)
        dots == {i \in 2..Len(n) : n[i] = "."}
    IN  IF dots = {} THEN <<>>
        ELSE LET i == CHOOSE d \in dots : \A e \in dots : e <= d
             IN  IF i = Len(n) THEN <<>> ELSE SubSeq(n, i, Len(n))

to_relative(absolute_path, library_root) ==
    IF IsRelativeTo(absolute_path, library_root)
    THEN IF absolute_path = library_root THEN Dot
         ELSE Join(Drop(absolute_path, Len(library_root)))
    ELSE <<Slash>> \o Join(absolute_path)

to_absolute(relative_path, library_root) ==
    IF relative_path # <<>> /\ relative_path[1] = Slash
    THEN Split(relative_path)
    ELSE library_root \o Split(relative_path)

-----------------------------------------------------------------------------
(* Archive files.  A file's content says what the archive reader, the      *)
(* thumbnail pipeline and the sidecar parser get out of it.  Of the twelve *)
(* sidecar fields the model keeps a text one (title) and an integer one    *)
(* (issue_number); the sidecar's own Series tag is kept to show that it is *)
(* never read.                                                             *)

(* form is what the XML parser makes of the sidecar's bytes: "tree" when    *)
(* they are well-formed, "blank" when they are empty or white space,       *)
(* "malformed" when ET.fromstring raises ParseError, and "multibyte" when  *)
(* the XML declaration names a multi-byte encoding, for which expat raises *)
(* ValueError.                                                             *)
NoSidecar ==
    [present |-> FALSE, form |-> "tree", Series |-> NoText, Title |-> NoText, Issue |-> NoText]

Plain == [valid |-> TRUE, pages |-> 1, decodable |-> TRUE, size |-> 1, info |-> NoSidecar]

Tagged ==
    [valid |-> TRUE, pages |-> 2, decodable |-> TRUE, size |-> 2,
     info |-> [present |-> TRUE, form |-> "tree", Series |-> <<"Z">>, Title |-> <<"T">>,
               Issue |-> <<"7">>]]

Bare ==
    [valid |-> TRUE, pages |-> 0, decodable |-> TRUE, size |-> 3,
     info |-> [present |-> TRUE, form |-> "tree", Series |-> <<"Z">>, Title |-> NoText,
               Issue |-> <<"x">>]]

Corrupt == [valid |-> FALSE, pages |-> 0, decodable |-> FALSE, size |-> 4, info |-> NoSidecar]

(* A readable archive whose sidecar is written in a multi-byte encoding. *)
Encoded ==
    [valid |-> TRUE, pages |-> 1, decodable |-> TRUE, size |-> 5,
     info |-> [present |-> TRUE, form |-> "multibyte", Series |-> NoText, Title |-> <<"T">>,
               Issue |-> <<"7">>]]

Contents == {Plain, Tagged, Bare, Corrupt}

COMIC_EXTENSIONS == {<<".", "c", "b", "z">>, <<".", "c", "b", "r">>}

is_comic_file(path) == LowerStr(Suffix(path)) \in COMIC_EXTENSIONS

(* config.scanner.ignore_patterns *)
IgnorePatterns == {<<"@">>}

_should_ignore(name, ignore_patterns) ==
    IF StartsWith(name, <<".", "_">>) THEN TRUE ELSE name \in ignore_patterns

(* The library root may be written in the configuration as a symbolic link *)
(* to the library: the path LinkRoot resolves to LibraryRoot.  The         *)
(* filesystem (dirs, files) holds resolved paths.                          *)
LinkRoot == << <<"K">> >>

(* Path.resolve() *)
resolve(path) ==
    IF StartsWith(path, LinkRoot) THEN LibraryRoot \o Drop(path, Len(LinkRoot)) ELSE path

Exists(path) == resolve(path) \in dirs \/ resolve(path) \in DOMAIN files

IsDir(path) == resolve(path) \in dirs

IsFile(path) == resolve(path) \in DOMAIN files

(* What the filesystem holds at the path of a file. *)
FileAt(path) == files[resolve(path)]

-----------------------------------------------------------------------------
(* Sidecar parsing (server/comicinfo.py) *)

DigitValue(c) ==
    CASE c = "0" -> 0 [] c = "1" -> 1 [] c = "2" -> 2 [] c = "3" -> 3 [] c = "4" -> 4
      [] c = "5" -> 5 [] c = "6" -> 6 [] c = "7" -> 7 [] c = "8" -> 8 [] c = "9" -> 9
      [] OTHER -> -1

RECURSIVE DigitsValue(_, _)
DigitsValue(s, acc) ==
    IF s = <<>> THEN acc ELSE DigitsValue(Tail(s), 10 * acc + DigitValue(s[1]))

(* The literals int() accepts: an optional sign, then digits with single   *)
(* underscores between them.                                               *)
IsIntLiteral(s) ==
    LET body == IF s # <<>> /\ s[1] \in {"+", "-"} THEN Tail(s) ELSE s
    IN  /\ body # <<>>
        /\ \A i \in 1..Len(body) : DigitValue(body[i]) >= 0 \/ body[i] = "_"
        /\ body[1] # "_" /\ body[Len(body)] # "_"
        /\ \A i \in 1..(Len(body) - 1) : ~(body[i] = "_" /\ body[i + 1] = "_")

IntValue(s) ==
    LET body == IF s[1] \in {"+", "-"} THEN Tail(s) ELSE s
        n == DigitsValue(SelectSeq(body, LAMBDA c : c # "_"), 0)
    IN  IF s[1] = "-" THEN 0 - n ELSE n

(* An absent integer is the empty tuple, a parsed one <<n>>. *)
_int_or_none(s) ==
    IF s = NoText THEN <<>>
    ELSE IF IsIntLiteral(s) THEN <<IntValue(s)>> ELSE <<>>

(* None (no sidecar, unreadable archive) and an all-absent record are the  *)
(* same to the caller, which only looks at the fields that are present.    *)
ComicInfoNone == [title |-> NoText, issue_number |-> <<>>, raised |-> FALSE]

(* ET.fromstring raised something other than ParseError. *)
ComicInfoRaised == [title |-> NoText, issue_number |-> <<>>, raised |-> TRUE]

(* TAG_MAP has no entry for Series: the tag is never looked up.  Only      *)
(* ParseError is caught.                                                   *)
parse_comicinfo_xml(xml) ==
    IF xml.form \in {"malformed", "blank"} THEN ComicInfoNone
    ELSE IF xml.form = "multibyte" THEN ComicInfoRaised
    ELSE [title |-> xml.Title, issue_number |-> _int_or_none(xml.Issue), raised |-> FALSE]

(* content.valid says that get_archive opens the file.  The sidecar is     *)
(* parsed outside the try block.                                           *)
read_comicinfo_from_archive(content) ==
    IF ~content.valid \/ ~content.info.present THEN ComicInfoNone
    ELSE IF content.info.form = "blank" THEN ComicInfoNone
    ELSE parse_comicinfo_xml(content.info)

-----------------------------------------------------------------------------
(* Index repository (server/repository.py).  W is the session's view of    *)
(* the index together with the thumbnail directory and the uuid source:    *)
(* [folders, comics, metadata, thumbs, nextUuid].  A query's .first() is   *)
(* modelled by the set of rows it selects (at most one, paths being        *)
(* unique) and First of it.                                                *)

MaxOf(S) == CHOOSE m \in S : \A n \in S : n <= m

(* INTEGER PRIMARY KEY without AUTOINCREMENT: one more than the largest rowid. *)
NewId(rows) == IF rows = {} THEN 1 ELSE MaxOf({r.id : r \in rows}) + 1

FolderAt(W, rel) == {f \in W.folders : f.path = rel}

ComicAt(W, rel) == {c \in W.comics : c.path = rel}

First(S) == CHOOSE r \in S : \A q \in S : r.id <= q.id

(* The({e : x \in {v}}) is e with x standing for the value of v, which is   *)
(* computed once: the way a statement's result is named and used below.    *)
The(S) == CHOOSE v \in S : TRUE

NewMetadata(comic_id) ==
    [comic_id |-> comic_id, series |-> NoText, title |-> NoText, issue_number |-> <<>>,
     is_completed |-> FALSE, current_page |-> Null, last_read_at |-> Null]

RECURSIVE get_or_create_folder(_, _)
(* A variant that creates the Folder of the path only, with no parent. *)
get_or_create_folder_Alone(W, given) ==
    LET path == resolve(given)
        rel_path_str == to_relative(path, LibraryRoot)
        found == FolderAt(W, rel_path_str)
    IN  IF found # {} THEN [W |-> W, folder |-> First(found)]
        ELSE The({[W |-> [W EXCEPT !.folders = @ \cup {created}], folder |-> created]
                  : created \in {[id |-> NewId(W.folders),
                                  name |-> IF Name(path) # <<>> THEN Name(path)
                                           ELSE <<Slash>> \o Join(path),
                                  path |-> rel_path_str,
                                  parent_id |-> Null]}})

get_or_create_folder(W, given) ==
    LET path == resolve(given)
        rel_path_str == to_relative(path, LibraryRoot)
        found == FolderAt(W, rel_path_str)
        recurse == path # LibraryRoot /\ Parent(path) # path
                   /\ IsRelativeTo(Parent(path), LibraryRoot)
    IN  IF found # {} THEN [W |-> W, folder |-> First(found)]
        ELSE The({The({[W |-> [up.W EXCEPT !.folders = @ \cup {created}], folder |-> created]
                       : created \in {[id |-> NewId(up.W.folders),
                                       name |-> IF Name(path) # <<>> THEN Name(path)
                                                ELSE <<Slash>> \o Join(path),
                                       path |-> rel_path_str,
                                       parent_id |-> up.folder.id]}})
                  : up \in {IF recurse THEN get_or_create_folder(W, Parent(path))
                            ELSE [W |-> W, folder |-> [id |-> Null]]}})

(* A variant whose update gives the row a new uuid. *)
upsert_comic_NewUuid(W, folder_id, path, filename, fmt, file_size, page_count, file_modified_at, thumbnail_generated) ==
    LET rel_path_str == to_relative(path, LibraryRoot)
        found == ComicAt(W, rel_path_str)
        row == [id |-> IF found # {} THEN First(found).id ELSE NewId(W.comics),
                uuid |-> W.nextUuid, folder_id |-> folder_id, filename |-> filename,
                path |-> rel_path_str, format |-> fmt, file_size |-> file_size,
                page_count |-> page_count, file_modified_at |-> file_modified_at,
                last_scanned_at |-> now, thumbnail_generated |-> thumbnail_generated]
    IN  [W |-> [W EXCEPT !.comics = (@ \ found) \cup {row},
                         !.metadata = IF found # {} THEN @ ELSE @ \cup {NewMetadata(row.id)},
                         !.nextUuid = @ + 1],
         comic |-> row]

upsert_comic(W, folder_id, path, filename, fmt, file_size, page_count, file_modified_at, thumbnail_generated) ==
    LET rel_path_str == to_relative(path, LibraryRoot)
        found == ComicAt(W, rel_path_str)
    IN  IF found # {}
        THEN The({[W |-> [W EXCEPT !.comics = (@ \ found) \cup {updated}], comic |-> updated]
                  : updated \in {[First(found) EXCEPT
                                     !.folder_id = folder_id, !.filename = filename,
                                     !.format = fmt, !.file_size = file_size,
                                     !.page_count = page_count,
                                     !.file_modified_at = file_modified_at,
                                     !.last_scanned_at = now,
                                     !.thumbnail_generated = thumbnail_generated]}})
        ELSE The({[W |-> [W EXCEPT !.comics = @ \cup {inserted},
                                   !.metadata = @ \cup {NewMetadata(inserted.id)},
                                   !.nextUuid = @ + 1],
                   comic |-> inserted]
                  : inserted \in {[id |-> NewId(W.comics), uuid |-> W.nextUuid,
                                   folder_id |-> folder_id, filename |-> filename,
                                   path |-> rel_path_str, format |-> fmt,
                                   file_size |-> file_size, page_count |-> page_count,
                                   file_modified_at |-> file_modified_at,
                                   last_scanned_at |-> now,
                                   thumbnail_generated |-> thumbnail_generated]}})

(* The set is empty when the query returns None. *)
get_comic_by_path(W, path) == ComicAt(W, to_relative(path, LibraryRoot))

(* Comic.metadata_rel *)
metadata_rel(W, comic) == {m \in W.metadata : m.comic_id = comic.id}

(* A variant without the cascade: the metadata rows stay. *)
DeleteComics_KeepMetadata(W, rows) ==
    [W |-> [W EXCEPT !.comics = @ \ rows], uuids |-> {c.uuid : c \in rows}]

(* session.delete(comic) for each row of a result set; metadata rows go    *)
(* with their comic (cascade "all, delete-orphan").                        *)
DeleteComics(W, rows) ==
    [W |-> [W EXCEPT !.comics = @ \ rows,
                     !.metadata = {m \in @ : m.comic_id \notin {c.id : c \in rows}}],
     uuids |-> {c.uuid : c \in rows}]

delete_comic_by_path(W, path) == DeleteComics(W, ComicAt(W, to_relative(path, LibraryRoot)))

delete_comics_under_path(W, base_path) ==
    LET rel_base_str == RStripSlash(to_relative(base_path, LibraryRoot))
    IN  DeleteComics(W, {c \in W.comics : LikeUnder(c.path, rel_base_str)})

(* session.delete(folder): the relationships Folder.children and           *)
(* Folder.comics carry no delete cascade, so the rows that referred to a   *)
(* deleted folder are kept with the reference set to NULL.                 *)
delete_folder_by_path(W, path) ==
    LET rel_path_str == RStripSlash(to_relative(path, LibraryRoot))
        gone == {f \in W.folders : LikeUnder(f.path, rel_path_str) \/ f.path = rel_path_str}
        ids == {f.id : f \in gone}
    IN  [W EXCEPT !.folders = {IF f.parent_id \in ids THEN [f EXCEPT !.parent_id = Null] ELSE f
                               : f \in @ \ gone},
                  !.comics = {IF c.folder_id \in ids THEN [c EXCEPT !.folder_id = Null] ELSE c
                              : c \in @}]

(* A variant without the unique constraint on path. *)
UniquePaths_Any(rows) == TRUE

(* A flush fails (IntegrityError) when two rows would hold the same path. *)
UniquePaths(rows) == \A r, q \in rows : r.path = q.path => r = q

update_folder_path(W, old_path, new_path) ==
    LET old_rel_str == RStripSlash(to_relative(old_path, LibraryRoot))
        new_rel_str == RStripSlash(to_relative(new_path, LibraryRoot))
        found == FolderAt(W, old_rel_str)
    IN  IF found = {} THEN [W |-> W, found |-> FALSE, error |-> FALSE]
        ELSE LET folder == First(found)
                 parent == FolderAt(W, to_relative(Parent(new_path), LibraryRoot))
                 moved == [folder EXCEPT !.path = new_rel_str, !.name = Name(new_path),
                                         !.parent_id = IF parent # {} THEN First(parent).id
                                                       ELSE Null]
             IN  The({IF ~UniquePaths(step1) THEN [W |-> W, found |-> TRUE, error |-> TRUE]
                      ELSE The({IF ~UniquePaths(step2)
                                THEN [W |-> [W EXCEPT !.folders = step1],
                                      found |-> TRUE, error |-> TRUE]
                                ELSE [W |-> [W EXCEPT !.folders = step2],
                                      found |-> TRUE, error |-> FALSE]
                                : step2 \in {{IF LikeUnder(f.path, old_rel_str)
                                              THEN [f EXCEPT !.path = ReplaceFirst(
                                                       f.path, old_rel_str, new_rel_str)]
                                              ELSE f : f \in step1}}})
                      : step1 \in {(W.folders \ {folder}) \cup {moved}}})

update_comic_paths(W, old_base, new_base) ==
    LET old_rel_str == RStripSlash(to_relative(old_base, LibraryRoot))
        new_rel_str == RStripSlash(to_relative(new_base, LibraryRoot))
    IN  The({IF ~UniquePaths(after)
             THEN [W |-> W, error |-> TRUE]
             ELSE [W |-> [W EXCEPT !.comics = after], error |-> FALSE]
             : after \in {{IF LikeUnder(c.path, old_rel_str)
                           THEN [c EXCEPT !.path = ReplaceFirst(c.path, old_rel_str, new_rel_str)]
                           ELSE c : c \in W.comics}}})

set_thumbnail_generated(W, comic_id, generated) ==
    [W EXCEPT !.comics = {IF c.id = comic_id THEN [c EXCEPT !.thumbnail_generated = generated]
                          ELSE c : c \in @}]

folder_has_subfolders(W, folder_id) ==
    Cardinality({f \in W.folders : f.parent_id = folder_id}) > 0

(* A variant that writes every field of the payload, absent ones too. *)
update_comic_metadata_Overwrite(W, comic_id, payload) ==
    LET found == {m \in W.metadata : m.comic_id = comic_id}
        meta == IF found = {} THEN NewMetadata(comic_id) ELSE CHOOSE m \in found : TRUE
        merged == [meta EXCEPT !.series = payload.series, !.title = payload.title,
                               !.issue_number = payload.issue_number]
    IN  [W EXCEPT !.metadata = (@ \ found) \cup {merged}]

(* payload: [series, title, issue_number]; only its fields that are not    *)
(* None are set (model_dump(exclude_none=True)).                           *)
update_comic_metadata(W, comic_id, payload) ==
    LET found == {m \in W.metadata : m.comic_id = comic_id}
        meta == IF found = {} THEN NewMetadata(comic_id) ELSE CHOOSE m \in found : TRUE
        merged == [meta EXCEPT
                     !.series = IF payload.series # NoText THEN payload.series ELSE @,
                     !.title = IF payload.title # NoText THEN payload.title ELSE @,
                     !.issue_number = IF payload.issue_number # <<>> THEN payload.issue_number
                                      ELSE @]
    IN  [W EXCEPT !.metadata = (@ \ found) \cup {merged}]

-----------------------------------------------------------------------------
(* Sessions.  W.saved is the committed index; a Session that is closed     *)
(* without commit (the end of a with block, an exception) loses what was   *)
(* only flushed.                                                           *)

Tables(W) == [folders |-> W.folders, comics |-> W.comics, metadata |-> W.metadata]

(* unstatable holds the paths whose stat fails while the session is open   *)
(* (the file has just gone, or permission is denied).                      *)
Session ==
    [folders |-> folders, comics |-> comics, metadata |-> metadata,
     thumbs |-> thumbs, nextUuid |-> nextUuid, unstatable |-> {},
     saved |-> [folders |-> folders, comics |-> comics, metadata |-> metadata]]

commit(W) == [W EXCEPT !.saved = Tables(W)]

rollback(W) ==
    [W EXCEPT !.folders = W.saved.folders, !.comics = W.saved.comics,
              !.metadata = W.saved.metadata]

(* A variant that leaves the thumbnail files in place. *)
delete_thumbnails_Keep(W, comic_uuids) == W

(* server/utils.py *)
delete_thumbnails(W, comic_uuids) == [W EXCEPT !.thumbs = @ \ comic_uuids]

get_comic_by_uuid(W, comic_uuid) == {c \in W.comics : c.uuid = comic_uuid}

(* A variant that sets the flag also when no thumbnail could be made. *)
generate_thumbnail_for_comic_FlagAnyway(W, comic_uuid, comic_path) ==
    IF ~IsFile(comic_path) THEN [W |-> W, ok |-> FALSE]
    ELSE LET content == FileAt(comic_path).content
             comic == get_comic_by_uuid(W, comic_uuid)
             made == content.valid /\ content.pages # 0 /\ content.decodable
         IN  [W |-> IF comic # {}
                    THEN commit(set_thumbnail_generated(
                                    IF made THEN [W EXCEPT !.thumbs = @ \cup {comic_uuid}] ELSE W,
                                    First(comic).id, TRUE))
                    ELSE W,
              ok |-> made]

(* server/thumbnails.py *)
generate_thumbnail_for_comic(W, comic_uuid, comic_path) ==
    IF ~IsFile(comic_path) THEN [W |-> W, ok |-> FALSE]
    ELSE LET content == FileAt(comic_path).content
         IN  IF ~content.valid \/ content.pages = 0 THEN [W |-> W, ok |-> FALSE]
             ELSE IF ~content.decodable THEN [W |-> W, ok |-> FALSE]
             ELSE LET saved == [W EXCEPT !.thumbs = @ \cup {comic_uuid}]
                      comic == get_comic_by_uuid(saved, comic_uuid)
                  IN  [W |-> IF comic # {}
                             THEN commit(set_thumbnail_generated(saved, First(comic).id, TRUE))
                             ELSE saved,
                       ok |-> TRUE]

-----------------------------------------------------------------------------
(* Scan engine (server/scanner.py) *)

(* A variant of the walk that does not descend below root. *)
WalkedDirs_TopOnly(root) == {d \in dirs : d = root}

(* os.walk below root: the directories none of whose parts below root is   *)
(* ignored, each with the comic files directly in it.                      *)
WalkedDirs(root) ==
    {d \in dirs : /\ IsRelativeTo(d, root)
                  /\ \A i \in (Len(root) + 1)..Len(d) : ~_should_ignore(d[i], IgnorePatterns)}

ComicFilesIn(dir_path) ==
    {f \in DOMAIN files : /\ Parent(f) = dir_path
                          /\ ~_should_ignore(Name(f), IgnorePatterns)
                          /\ is_comic_file(f)}

(* A variant that accepts every archive. *)
validate_and_count_pages_Lenient(path) == [ok |-> TRUE, pages |-> FileAt(path).content.pages]

validate_and_count_pages(path) ==
    IF FileAt(path).content.valid THEN [ok |-> TRUE, pages |-> FileAt(path).content.pages]
    ELSE [ok |-> FALSE, pages |-> 0]

(* A variant that skips every Item whose Metadata exists, whatever the     *)
(* modification time.                                                      *)
_should_skip_comic_AnyMtime(W, comic_in_db, file_mtime, force) ==
    IF force \/ comic_in_db = {} THEN FALSE
    ELSE metadata_rel(W, First(comic_in_db)) # {}

(* comic_in_db is the set get_comic_by_path returned (empty for None). *)
_should_skip_comic(W, comic_in_db, file_mtime, force) ==
    IF force \/ comic_in_db = {} THEN FALSE
    ELSE IF First(comic_in_db).file_modified_at = Null THEN FALSE
    ELSE IF First(comic_in_db).file_modified_at # file_mtime THEN FALSE
    ELSE IF metadata_rel(W, First(comic_in_db)) = {} THEN FALSE
    ELSE TRUE

NoPayload == [series |-> NoText, title |-> NoText, issue_number |-> <<>>]

(* What process_comic returns, and in entry what it saw and did, for the   *)
(* log of the operation.                                                   *)
Outcome(W, comic_path, force, existing, should_skip, thumb, outcome, leaf, payload, uuid) ==
    [W |-> W, was_existing |-> existing, should_skip |-> should_skip, thumb |-> thumb,
     entry |-> [path |-> comic_path, force |-> force, existing |-> existing,
                skipped |-> should_skip, outcome |-> outcome, leaf |-> leaf,
                payload |-> payload, uuid |-> uuid, thumb |-> thumb]]

(* comic_path.stat() raises FileNotFoundError or PermissionError *)
StatFails(W, comic_path) == ~IsFile(comic_path) \/ comic_path \in W.unstatable

(* A variant that drops the Item of a file whose stat fails. *)
Unstatable_Forget(W, comic_path, force) ==
    LET del == delete_comic_by_path(W, comic_path)
    IN  Outcome(delete_thumbnails(commit(del.W), del.uuids), comic_path, force, FALSE, TRUE,
                FALSE, "unstatable", FALSE, NoPayload, Null)

(* What process_comic returns when stat fails. *)
Unstatable(W, comic_path, force) ==
    Outcome(W, comic_path, force, FALSE, TRUE, FALSE, "unstatable", FALSE, NoPayload, Null)

process_comic(W, comic_path, folder_id, force) ==
    IF StatFails(W, comic_path) THEN Unstatable(W, comic_path, force)
    ELSE
    LET file_mtime == FileAt(comic_path).mtime
        file_size == FileAt(comic_path).content.size
        checked == validate_and_count_pages(comic_path)
        fmt == Tail(LowerStr(Suffix(comic_path)))
        comicinfo == read_comicinfo_from_archive(FileAt(comic_path).content)
        has_fields == comicinfo.title # NoText \/ comicinfo.issue_number # <<>>
    IN  The({
        LET existing == comic_in_db # {}
            thumb_gen == IF existing THEN First(comic_in_db).thumbnail_generated ELSE FALSE
        IN  IF _should_skip_comic(W, comic_in_db, file_mtime, force)
            THEN Outcome(W, comic_path, force, existing, TRUE, FALSE, "unchanged", FALSE,
                         NoPayload, Null)
            ELSE IF ~checked.ok
            THEN LET del == delete_comic_by_path(W, comic_path)
                 IN  Outcome(IF existing THEN delete_thumbnails(commit(del.W), del.uuids) ELSE W,
                             comic_path, force, existing, TRUE, FALSE, "corrupt", FALSE,
                             NoPayload, Null)
            ELSE The({The({
                 LET is_leaf == ~folder_has_subfolders(th.W, folder_id)
                     series_from_folder == IF is_leaf THEN Name(Parent(comic_path)) ELSE NoText
                     payload == [series |-> series_from_folder, title |-> comicinfo.title,
                                 issue_number |-> comicinfo.issue_number]
                 IN  IF comicinfo.raised
                     THEN Outcome(th.W, comic_path, force, existing, FALSE, th.ok, "raised",
                                  is_leaf, NoPayload, up.comic.uuid)
                     ELSE
                     Outcome(commit(IF has_fields
                                    THEN update_comic_metadata(th.W, up.comic.id, payload)
                                    ELSE IF series_from_folder # NoText
                                    THEN update_comic_metadata(
                                             th.W, up.comic.id,
                                             [NoPayload EXCEPT !.series = series_from_folder])
                                    ELSE th.W),
                             comic_path, force, existing, FALSE, th.ok, "processed",
                             is_leaf, payload, up.comic.uuid)
                 : th \in {generate_thumbnail_for_comic(up.W, up.comic.uuid, comic_path)}})
                 : up \in {upsert_comic(W, folder_id, comic_path, Name(comic_path), fmt,
                                        file_size, checked.pages, file_mtime, thumb_gen)}})
        : comic_in_db \in {get_comic_by_path(W, comic_path)}})

(* A pending set is taken one element at a time; directories are taken     *)
(* parents first, as os.walk yields them.                                  *)
Pick(S) == CHOOSE x \in S : \A y \in S : Len(x) <= Len(y)

EmptyStats == [added |-> 0, updated |-> 0, deleted |-> 0, skipped |-> 0]

Count(stats, r) ==
    IF r.entry.outcome = "raised" THEN stats
    ELSE IF r.should_skip THEN [stats EXCEPT !.skipped = @ + 1]
    ELSE IF r.was_existing THEN [stats EXCEPT !.updated = @ + 1]
    ELSE [stats EXCEPT !.added = @ + 1]

(* process_comic raised: the exception leaves the loops and the operation *)
(* that called it.                                                         *)
Raised(A) == \E e \in A.log : e.outcome = "raised"

(* The loop over comic_files of one directory.  A is [W, stats, log]. *)
RECURSIVE ProcessFiles(_, _, _, _)
ProcessFiles(A, pending, folder_id, force) ==
    IF pending = {} \/ Raised(A) THEN A
    ELSE The({The({ProcessFiles(next, rest, folder_id, force)
                   : next \in {[W |-> r.W, stats |-> Count(A.stats, r),
                                log |-> A.log \cup {r.entry}]},
                     rest \in {pending \ {r.entry.path}}})
              : r \in {process_comic(A.W, Pick(pending), folder_id, force)}})

RECURSIVE WalkLibrary(_, _, _)
WalkLibrary(A, pending, force) ==
    IF pending = {} \/ Raised(A) THEN A
    ELSE LET dir_path == Pick(pending)
         IN  The({The({WalkLibrary(next, rest, force)
                       : next \in {ProcessFiles([A EXCEPT !.W = g.W], comic_files,
                                                g.folder.id, force)},
                         rest \in {pending \ {dir_path}}})
                  : g \in {get_or_create_folder(A.W, dir_path)},
                    comic_files \in {ComicFilesIn(dir_path)}})

RECURSIVE DeleteMissingComics(_, _, _)
DeleteMissingComics(A, db_comics, processed_paths) ==
    IF db_comics = {} THEN A
    ELSE LET comic == CHOOSE c \in db_comics : TRUE
             comic_abs_path == to_absolute(comic.path, LibraryRoot)
             del == delete_comic_by_path(A.W, comic_abs_path)
         IN  The({DeleteMissingComics(next, rest, processed_paths)
                  : next \in {IF comic_abs_path \notin processed_paths /\ ~Exists(comic_abs_path)
                              THEN [A EXCEPT !.W = delete_thumbnails(commit(del.W), del.uuids),
                                             !.stats.deleted = @ + 1]
                              ELSE A},
                    rest \in {db_comics \ {comic}}})

RECURSIVE DeleteMissingFolders(_, _)
DeleteMissingFolders(W, db_folders) ==
    IF db_folders = {} THEN W
    ELSE LET folder == CHOOSE f \in db_folders : TRUE
             folder_abs_path == to_absolute(folder.path, LibraryRoot)
         IN  The({DeleteMissingFolders(next, rest)
                  : next \in {IF ~Exists(folder_abs_path)
                              THEN delete_folder_by_path(W, folder_abs_path)
                              ELSE W},
                    rest \in {db_folders \ {folder}}})

(* The result is [W, stats, log]; the caller has checked that base exists. *)
(* An exception of process_comic leaves the with block: the session is     *)
(* closed with what was not committed undone.                              *)
scan_library(W, base, force) ==
    LET base_rel_str == RStripSlash(to_relative(base, LibraryRoot))
    IN  The({The({
        IF Raised(A1) THEN [A1 EXCEPT !.W = rollback(A1.W)] ELSE
        LET db_comics == IF base = LibraryRoot THEN A1.W.comics
                         ELSE {c \in A1.W.comics : LikeUnder(c.path, base_rel_str)}
        IN  The({
            LET db_folders == IF base = LibraryRoot THEN A2.W.folders
                              ELSE {f \in A2.W.folders :
                                       f.path = base_rel_str \/ LikeUnder(f.path, base_rel_str)}
            IN  [A2 EXCEPT !.W = commit(DeleteMissingFolders(A2.W, db_folders))]
            : A2 \in {DeleteMissingComics(A1, db_comics, processed_paths)}})
        : A1 \in {WalkLibrary([W |-> W, stats |-> EmptyStats, log |-> {}], walked, force)},
          processed_paths \in {UNION {ComicFilesIn(d) : d \in walked}}})
        : walked \in {WalkedDirs(base)}})

(* The files below path that scan_folder collects (os.walk, no ignore      *)
(* patterns, names starting with ._ left out).                             *)
FolderComicFiles(path) ==
    {path \o Drop(f, Len(resolve(path)))
     : f \in {g \in DOMAIN files : /\ IsRelativeTo(g, resolve(path)) /\ g # resolve(path)
                                   /\ is_comic_file(g)
                                   /\ ~StartsWith(Name(g), <<".", "_">>)}}

RECURSIVE ScanFolderFiles(_, _)
ScanFolderFiles(A, pending) ==
    IF pending = {} \/ Raised(A) THEN A
    ELSE LET comic_path == Pick(pending)
         IN  The({The({The({ScanFolderFiles(next, rest)
                            : next \in {[W |-> r.W, stats |-> Count(A.stats, r),
                                         log |-> A.log \cup {r.entry}]},
                              rest \in {pending \ {comic_path}}})
                       : r \in {process_comic(g.W, comic_path, g.folder.id, FALSE)}})
                  : g \in {get_or_create_folder(A.W, Parent(comic_path))}})

Result(W, log, failed) == [W |-> W, stats |-> EmptyStats, log |-> log, failed |-> failed]

scan_file(W, path) ==
    IF ~Exists(path) THEN Result(W, {}, FALSE)
    ELSE The({The({Result(IF r.entry.outcome = "raised" THEN rollback(r.W) ELSE r.W,
                          {r.entry}, r.entry.outcome = "raised")
                   : r \in {process_comic(g.W, path, g.folder.id, FALSE)}})
              : g \in {get_or_create_folder(W, Parent(path))}})

scan_folder(W, path) ==
    IF ~Exists(path) \/ ~IsDir(path) THEN Result(W, {}, FALSE)
    ELSE The({Result(IF Raised(A) THEN rollback(A.W) ELSE A.W, A.log, Raised(A))
              : A \in {ScanFolderFiles([W |-> W, stats |-> EmptyStats, log |-> {}],
                                       FolderComicFiles(path))}})

delete_path(W, path) ==
    IF IsDir(path) \/ (~Exists(path) /\ Suffix(path) \notin COMIC_EXTENSIONS)
    THEN LET del == delete_comics_under_path(W, path)
         IN  Result(delete_thumbnails(commit(delete_folder_by_path(del.W, path)), del.uuids),
                    {}, FALSE)
    ELSE LET del == delete_comic_by_path(W, path)
         IN  Result(delete_thumbnails(commit(del.W), del.uuids), {}, FALSE)

(* A variant that commits the folder rewrite before the comics are         *)
(* rewritten.                                                              *)
MoveFolder_EarlyCommit(W, src_path, dest_path, fault) ==
    LET W0 == IF Parent(dest_path) # LibraryRoot
              THEN get_or_create_folder(W, Parent(dest_path)).W ELSE W
    IN  The({The({IF u.error \/ fault = 1 THEN Result(u.W, {}, TRUE)
                  ELSE IF c.error \/ fault = 2 THEN Result(c.W, {}, TRUE)
                  ELSE IF fault = 3 THEN Result(c.W, {}, TRUE)
                  ELSE Result(commit(c.W), {}, FALSE)
                  : c \in {update_comic_paths(commit(u.W), src_path, dest_path)}})
             : u \in {update_folder_path(W0, src_path, dest_path)}})

Faults == 0..3

(* The folder branch of move_path.  fault names the step that raises for a *)
(* reason outside the index (0: none; 1: the folder rewrite; 2: the        *)
(* rewrite of the comics; 3: the commit).  An exception leaves the with    *)
(* block without commit.                                                   *)
MoveFolder(W, src_path, dest_path, fault) ==
    LET W0 == IF Parent(dest_path) # LibraryRoot
              THEN get_or_create_folder(W, Parent(dest_path)).W ELSE W
    IN  The({The({IF u.error \/ fault = 1 THEN Result(u.W, {}, TRUE)
                  ELSE IF c.error \/ fault = 2 THEN Result(c.W, {}, TRUE)
                  ELSE IF fault = 3 THEN Result(c.W, {}, TRUE)
                  ELSE Result(commit(c.W), {}, FALSE)
                  : c \in {update_comic_paths(u.W, src_path, dest_path)}})
             : u \in {update_folder_path(W0, src_path, dest_path)}})

MoveFile(W, src_path, dest_path) ==
    IF ~is_comic_file(dest_path) THEN Result(W, {}, FALSE)
    ELSE The({
         IF comic # {}
         THEN LET moved == [First(comic) EXCEPT
                               !.path = to_relative(dest_path, LibraryRoot),
                               !.folder_id = g.folder.id,
                               !.filename = Name(dest_path)]
                  after == (g.W.comics \ comic) \cup {moved}
              IN  IF ~UniquePaths(after) THEN Result(g.W, {}, TRUE)
                  ELSE Result(commit([g.W EXCEPT !.comics = after]), {}, FALSE)
         ELSE The({Result(r.W, {r.entry}, FALSE)
                   : r \in {process_comic(g.W, dest_path, g.folder.id, FALSE)}})
         : comic \in {get_comic_by_path(W, src_path)},
           g \in {get_or_create_folder(W, Parent(dest_path))}})

move_path(W, src_path, dest_path, fault) ==
    LET is_folder == IF Exists(dest_path) THEN IsDir(dest_path)
                     ELSE Suffix(src_path) \notin COMIC_EXTENSIONS
    IN  IF is_folder THEN MoveFolder(W, src_path, dest_path, fault)
        ELSE MoveFile(W, src_path, dest_path)

-----------------------------------------------------------------------------
(* Event monitor (server/monitor.py): the tasks and their optimization.    *)

(* dest_path = None *)
NoPath == <<>>

MonitorTask(action, path, dest_path) == [action |-> action, path |-> path, dest_path |-> dest_path]

(* The characters of the model in code point order, which is the order of  *)
(* str comparison.                                                         *)
CodePoints ==
    <<"%", ".", "/", "0", "1", "2", "3", "4", "5", "6", "7", "8", "9", "@",
      "A", "B", "C", "L", "R", "S", "T", "U", "X", "Z", "_",
      "a", "b", "c", "r", "s", "x", "z">>

Ord(c) == CHOOSE i \in 1..Len(CodePoints) : CodePoints[i] = c

(* s < t for str *)
StrLess(s, t) ==
    \E i \in 1..(Len(s) + 1) :
        /\ i <= Len(t)
        /\ SubSeq(s, 1, i - 1) = SubSeq(t, 1, i - 1)
        /\ (i = Len(s) + 1 \/ Ord(s[i]) < Ord(t[i]))

(* p < q for Path: the parts are compared one by one. *)
PathLess(p, q) ==
    \E i \in 1..(Len(p) + 1) :
        /\ i <= Len(q)
        /\ SubSeq(p, 1, i - 1) = SubSeq(q, 1, i - 1)
        /\ (i = Len(p) + 1 \/ StrLess(p[i], q[i]))

Range(seq) == {seq[i] : i \in 1..Len(seq)}

(* sorted(paths) *)
RECURSIVE Sorted(_)
Sorted(paths) ==
    IF paths = {} THEN <<>>
    ELSE LET least == CHOOSE p \in paths : \A q \in paths \ {p} : PathLess(p, q)
         IN  <<least>> \o Sorted(paths \ {least})

(* A variant that keeps a task for every insertion. *)
TasksByPath_All(tasks, action) == SelectSeq(tasks, LAMBDA t : t.action = action)

(* {t.path: t for t in tasks if t.action == action}: the keys in the order *)
(* of their first insertion, each with the last task inserted for it.      *)
TasksByPath(tasks, action) ==
    LET sel == SelectSeq(tasks, LAMBDA t : t.action = action)
        firsts == {i \in 1..Len(sel) : \A j \in 1..(i - 1) : sel[j].path # sel[i].path}
        last(path) == CHOOSE i \in 1..Len(sel) :
                          /\ sel[i].path = path
                          /\ \A j \in (i + 1)..Len(sel) : sel[j].path # path
    IN  [k \in 1..Cardinality(firsts) |->
            sel[last(sel[CHOOSE i \in firsts : Cardinality({j \in firsts : j < i}) = k - 1].path)]]

(* The loop that keeps, of the paths in sorted order, those that do not    *)
(* lie under a path kept before them.                                      *)
RECURSIVE KeepTopmost(_, _)
KeepTopmost(sorted_paths, final) ==
    IF sorted_paths = <<>> THEN final
    ELSE LET path == Head(sorted_paths)
             is_subitem == \E parent \in Range(final) :
                               path # parent /\ IsRelativeTo(path, parent)
         IN  KeepTopmost(Tail(sorted_paths), IF is_subitem THEN final ELSE Append(final, path))

(* The task of the batch for each path of a kept sequence. *)
TasksAt(by_path, paths) ==
    [k \in 1..Len(paths) |-> CHOOSE t \in Range(by_path) : t.path = paths[k]]

final_scan_folders(tasks) ==
    LET scan_folders == TasksByPath(tasks, "scan_folder")
    IN  TasksAt(scan_folders, KeepTopmost(Sorted({t.path : t \in Range(scan_folders)}), <<>>))

(* A variant that keeps every file scan, covered by a folder scan or not. *)
final_scan_files_All(tasks) == TasksByPath(tasks, "scan_file")

final_scan_files(tasks) ==
    SelectSeq(TasksByPath(tasks, "scan_file"),
              LAMBDA task : ~\E folder \in Range(final_scan_folders(tasks)) :
                                 IsRelativeTo(task.path, folder.path))

(* A variant that keeps every delete, covered by another delete or not. *)
final_deletes_All(tasks) ==
    LET deletes == TasksByPath(tasks, "delete")
    IN  TasksAt(deletes, Sorted({t.path : t \in Range(deletes)}))

final_deletes(tasks) ==
    LET deletes == TasksByPath(tasks, "delete")
    IN  TasksAt(deletes, KeepTopmost(Sorted({t.path : t \in Range(deletes)}), <<>>))

(* A variant that keeps one move per source path. *)
moves_ByPath(tasks) == TasksByPath(tasks, "move")

moves(tasks) == SelectSeq(tasks, LAMBDA t : t.action = "move")

(* sorted(final_scan_folders.values(), key=lambda t: t.path) *)
SortedByPath(folder_tasks) ==
    TasksAt(folder_tasks, Sorted({t.path : t \in Range(folder_tasks)}))

(* A variant that puts the scans before the deletes and the moves. *)
optimize_tasks_ScansFirst(tasks) ==
    IF tasks = <<>> THEN <<>>
    ELSE SortedByPath(final_scan_folders(tasks)) \o final_scan_files(tasks)
             \o final_deletes(tasks) \o moves(tasks)

optimize_tasks(tasks) ==
    IF tasks = <<>> THEN <<>>
    ELSE final_deletes(tasks) \o moves(tasks)
             \o SortedByPath(final_scan_folders(tasks)) \o final_scan_files(tasks)

-----------------------------------------------------------------------------
(* Reader (reader/repository.py): writes of the metadata row by uuid. *)

update_progress(W, comic_uuid, current_page, set_completed, is_completed) ==
    LET comic == get_comic_by_uuid(W, comic_uuid)
    IN  IF comic = {} THEN W
        ELSE LET id == First(comic).id
                 found == {m \in W.metadata : m.comic_id = id}
                 meta == IF found = {} THEN NewMetadata(id) ELSE CHOOSE m \in found : TRUE
                 after == [meta EXCEPT !.current_page = current_page, !.last_read_at = now,
                                       !.is_completed = IF set_completed THEN is_completed ELSE @]
             IN  commit([W EXCEPT !.metadata = (@ \ found) \cup {after}])

(* update_metadata with the payload {"title": title} *)
update_metadata(W, comic_uuid, title) ==
    LET comic == get_comic_by_uuid(W, comic_uuid)
    IN  IF comic = {} THEN W
        ELSE LET id == First(comic).id
                 found == {m \in W.metadata : m.comic_id = id}
                 meta == IF found = {} THEN NewMetadata(id) ELSE CHOOSE m \in found : TRUE
             IN  commit([W EXCEPT !.metadata = (@ \ found) \cup {[meta EXCEPT !.title = title]}])

-----------------------------------------------------------------------------
(* The library used for checking: names, and the paths the environment     *)
(* and the callers draw from.                                              *)

Cbz == <<"x", ".", "c", "b", "z">>
Hidden == <<".", "_", "x", ".", "c", "b", "z">>

DirA == LibraryRoot \o << <<"a">> >>
DirAS == DirA \o << <<"s">> >>
DirB == LibraryRoot \o << <<"b">> >>
DirBS == DirB \o << <<"s">> >>
DirUpA == LibraryRoot \o << <<"A">> >>
DirUpAS == DirUpA \o << <<"s">> >>
DirIgnored == DirA \o << <<"@">> >>

FileOf(dir) == dir \o <<Cbz>>

File(content) == [mtime |-> 1, content |-> content]

(* The libraries a run starts from; the index starts empty. *)
Layouts ==
    { [dirs |-> {LibraryRoot, DirA, DirAS},
       files |-> (FileOf(DirA) :> File(Tagged)) @@ (FileOf(DirAS) :> File(Plain))],
      [dirs |-> {LibraryRoot, DirA, DirUpA, DirUpAS},
       files |-> (FileOf(DirA) :> File(Plain)) @@ (FileOf(DirUpAS) :> File(Tagged))],
      [dirs |-> {LibraryRoot, DirA, DirB, DirIgnored},
       files |-> (FileOf(DirA) :> File(Plain)) @@ (FileOf(DirIgnored) :> File(Plain))
                 @@ ((DirA \o <<Hidden>>) :> File(Plain))
                 @@ (FileOf(LibraryRoot) :> File(Corrupt))] }

WriteTargets == {FileOf(DirA), FileOf(DirAS)}
MkdirTargets == {DirAS, DirB}
RemoveTargets == {DirA, DirAS, FileOf(DirA)}
RenamePairs == {<<DirA, DirB>>, <<FileOf(DirA), FileOf(DirAS)>>}

StatFailures == {{}, {FileOf(DirA)}}
ScanBases == {LibraryRoot, DirA, DirAS, DirUpA, DirB}
MovePairs == {<<DirA, DirB>>, <<FileOf(DirA), FileOf(DirAS)>>, <<FileOf(DirA), FileOf(DirB)>>}
DeleteTargets == {DirA, FileOf(DirA), DirUpA}

-----------------------------------------------------------------------------
(* State machine *)

(* lastOp is a call of the program or a change of the filesystem; prev is  *)
(* the event before it when that was a rename on disk.                     *)
NoEvent == [op |-> "none", path |-> <<>>, dest |-> <<>>]

NoOp ==
    [op |-> "none", path |-> <<>>, dest |-> <<>>, force |-> FALSE, fault |-> 0,
     stats |-> EmptyStats, log |-> {}, failed |-> FALSE, rescan |-> FALSE, prev |-> NoEvent]

Event(op) ==
    IF op.op = "rename" THEN [op |-> op.op, path |-> op.path, dest |-> op.dest] ELSE NoEvent

Snapshot == [folders |-> folders, comics |-> comics, metadata |-> metadata, thumbs |-> thumbs]

(* An empty index, no thumbnails, nothing queued. *)
Fresh ==
    /\ folders = {} /\ comics = {} /\ metadata = {}
    /\ thumbs = {}
    /\ nextUuid = 1
    /\ now = 1
    /\ lastOp = NoOp
    /\ before = Snapshot
    /\ fsOps = 0
    /\ task_queue = <<>>
    /\ _last_modified = <<>>
    /\ stop_event = FALSE
    /\ batch = <<>>
    /\ start_time = 0
    /\ optimized_tasks = <<>>
    /\ next_task = 1
    /\ clock = 2 * debounce_seconds
    /\ worker_log = <<>>
    /\ batches = 0
    /\ events = 0
    /\ fired = <<>>

(* The state when the process has started: the library as it is on disk,  *)
(* and nothing indexed.                                                    *)
Started ==
    /\ \E layout \in Layouts : dirs = layout.dirs /\ files = layout.files
    /\ Fresh

(* The monitor is running: the worker thread is at the top of its loop and *)
(* the observer delivers events.                                           *)
Init ==
    /\ Started
    /\ pc = "idle"
    /\ main = "serving"

(* The session is closed: what was committed is the index. *)
Close(R, op, path, dest, force, fault, rescan) ==
    /\ folders' = R.W.saved.folders
    /\ comics' = R.W.saved.comics
    /\ metadata' = R.W.saved.metadata
    /\ thumbs' = R.W.thumbs
    /\ nextUuid' = R.W.nextUuid
    /\ now' = now + 1
    /\ lastOp' = [op |-> op, path |-> path, dest |-> dest, force |-> force, fault |-> fault,
                  stats |-> R.stats, log |-> R.log, failed |-> R.failed, rescan |-> rescan,
                  prev |-> Event(lastOp)]
    /\ before' = Snapshot
    /\ UNCHANGED <<dirs, files, fsOps>>

(* failing is the set of files whose stat fails during this scan. *)
ScanLibrary(base, force, failing) ==
    /\ now <= MaxOps
    /\ UNCHANGED monitorVars
    /\ LET rescan == lastOp.op = "scan_library" /\ lastOp.path = base /\ ~lastOp.failed
       IN  IF ~Exists(base)
           THEN Close(Result(Session, {}, TRUE), "scan_library", base, <<>>, force, 0, FALSE)
           ELSE \E A \in {scan_library([Session EXCEPT !.unstatable = failing], base, force)} :
                    Close([W |-> A.W, stats |-> A.stats, log |-> A.log, failed |-> Raised(A)],
                          "scan_library", base, <<>>, force, 0, rescan)

ScanFile(path) ==
    /\ now <= MaxOps
    /\ UNCHANGED monitorVars
    /\ \E R \in {scan_file(Session, path)} :
           Close(R, "scan_file", path, <<>>, FALSE, 0, FALSE)

ScanFolder(path) ==
    /\ now <= MaxOps
    /\ UNCHANGED monitorVars
    /\ \E R \in {scan_folder(Session, path)} :
           Close(R, "scan_folder", path, <<>>, FALSE, 0, FALSE)

DeletePath(path) ==
    /\ now <= MaxOps
    /\ UNCHANGED monitorVars
    /\ \E R \in {delete_path(Session, path)} :
           Close(R, "delete_path", path, <<>>, FALSE, 0, FALSE)

(* A fault is injected into the folder branch only. *)
MovePath(src_path, dest_path, fault) ==
    /\ now <= MaxOps
    /\ UNCHANGED monitorVars
    /\ fault # 0 => (IF Exists(dest_path) THEN IsDir(dest_path)
                     ELSE Suffix(src_path) \notin COMIC_EXTENSIONS)
    /\ \E R \in {move_path(Session, src_path, dest_path, fault)} :
           Close(R, "move_path", src_path, dest_path, FALSE, fault, FALSE)

UpdateProgress(comic_uuid) ==
    /\ now <= MaxOps
    /\ UNCHANGED monitorVars
    /\ \E R \in {Result(update_progress(Session, comic_uuid, 1, TRUE, TRUE), {}, FALSE)} :
           Close(R, "update_progress", <<>>, <<>>, FALSE, 0, FALSE)

UpdateMetadata(comic_uuid) ==
    /\ now <= MaxOps
    /\ UNCHANGED monitorVars
    /\ \E R \in {Result(update_metadata(Session, comic_uuid, <<"U">>), {}, FALSE)} :
           Close(R, "update_metadata", <<>>, <<>>, FALSE, 0, FALSE)

(* The filesystem changes under the program; event is what lastOp keeps of *)
(* the change.                                                             *)
FsEvent(op, path, dest) ==
    [NoOp EXCEPT !.op = op, !.path = path, !.dest = dest, !.prev = Event(lastOp)]

Changed(newDirs, newFiles, event) ==
    /\ dirs' = newDirs
    /\ files' = newFiles
    /\ fsOps' = fsOps + 1
    /\ lastOp' = event
    /\ before' = Snapshot
    /\ UNCHANGED <<folders, comics, metadata, thumbs, nextUuid, now>>
    /\ UNCHANGED monitorVars

Restrict(f, S) == [x \in S |-> f[x]]

Write(path, content, touch) ==
    /\ Parent(path) \in dirs /\ path \notin dirs
    /\ LET mtime == IF path \in DOMAIN files
                    THEN IF touch THEN files[path].mtime + 1 ELSE files[path].mtime
                    ELSE 1
       IN  /\ mtime <= MaxMtime
           /\ [mtime |-> mtime, content |-> content] # (IF path \in DOMAIN files THEN files[path] ELSE <<>>)
           /\ Changed(dirs, (path :> [mtime |-> mtime, content |-> content])
                            @@ Restrict(files, DOMAIN files \ {path}),
                      FsEvent("write", path, <<>>))

FsWrite(path, content, touch) ==
    /\ fsOps < MaxFsOps
    /\ Write(path, content, touch)

FsMkdir(path) ==
    /\ fsOps < MaxFsOps
    /\ Parent(path) \in dirs /\ ~Exists(path)
    /\ Changed(dirs \cup {path}, files, FsEvent("mkdir", path, <<>>))

Remove(path) ==
    /\ Exists(path)
    /\ Changed({d \in dirs : ~IsRelativeTo(d, path)},
               Restrict(files, {f \in DOMAIN files : ~IsRelativeTo(f, path)}),
               FsEvent("remove", path, <<>>))

FsRemove(path) ==
    /\ fsOps < MaxFsOps
    /\ Remove(path)

(* rename(2): the destination is absent or an empty directory taking a     *)
(* directory.                                                              *)
Rename(src, dest) ==
    /\ Exists(src) /\ Parent(dest) \in dirs
    /\ \/ ~Exists(dest)
       \/ /\ IsDir(src) /\ IsDir(dest)
          /\ \A p \in dirs \cup DOMAIN files : IsRelativeTo(p, dest) => p = dest
    /\ LET Moved(p) == IF IsRelativeTo(p, src) THEN dest \o Drop(p, Len(src)) ELSE p
           newFiles == {Moved(f) : f \in DOMAIN files}
           Origin(q) == CHOOSE f \in DOMAIN files : Moved(f) = q
       IN  Changed({Moved(d) : d \in dirs}, [q \in newFiles |-> files[Origin(q)]],
                   FsEvent("rename", src, dest))

FsRename(src, dest) ==
    /\ fsOps < MaxFsOps
    /\ Rename(src, dest)

-----------------------------------------------------------------------------
(* Event monitor: the handler (the observer thread calls it) and the       *)
(* worker thread.                                                          *)

CreatedEvents ==
    {<<DirA, TRUE>>, <<DirAS, TRUE>>, <<DirB, TRUE>>, <<FileOf(DirA), FALSE>>,
     <<FileOf(DirAS), FALSE>>, <<DirA \o <<Hidden>>, FALSE>>}
DeletedEvents == {DirA, FileOf(DirA)}
MovedEvents == {<<FileOf(DirA), FileOf(DirB)>>}
ModifiedEvents == {<<FileOf(DirA), FALSE>>, <<DirA, TRUE>>}
DebounceEvents == {<<FileOf(DirA), FALSE>>, <<FileOf(DirAS), FALSE>>, <<DirA, TRUE>>}

(* The handler returns: put is the sequence of tasks it has put. *)
Handled(put, last_modified, last_fired) ==
    /\ main = "serving"
    /\ events < MaxEvents
    /\ events' = events + 1
    /\ task_queue' = task_queue \o put
    /\ _last_modified' = last_modified
    /\ fired' = last_fired
    /\ UNCHANGED <<dirs, files, folders, comics, metadata, thumbs, nextUuid, now, lastOp, before,
                   fsOps, stop_event, pc, batch, start_time, optimized_tasks, next_task, clock,
                   worker_log, batches, main>>

on_created(path, is_directory) ==
    IF StartsWith(Name(path), <<".", "_">>) THEN Handled(<<>>, _last_modified, fired)
    ELSE IF is_directory
    THEN Handled(<<MonitorTask("scan_folder", path, NoPath)>>, _last_modified, fired)
    ELSE IF is_comic_file(path)
    THEN Handled(<<MonitorTask("scan_file", path, NoPath)>>, _last_modified, fired)
    ELSE Handled(<<>>, _last_modified, fired)

on_deleted(path) ==
    IF StartsWith(Name(path), <<".", "_">>) THEN Handled(<<>>, _last_modified, fired)
    ELSE Handled(<<MonitorTask("delete", path, NoPath)>>, _last_modified, fired)

(* A variant that looks at the name of the source only. *)
on_moved_SourceOnly(src_path, dest_path) ==
    IF StartsWith(Name(src_path), <<".", "_">>)
    THEN Handled(<<>>, _last_modified, fired)
    ELSE Handled(<<MonitorTask("move", src_path, dest_path)>>, _last_modified, fired)

on_moved(src_path, dest_path) ==
    IF StartsWith(Name(src_path), <<".", "_">>) \/ StartsWith(Name(dest_path), <<".", "_">>)
    THEN Handled(<<>>, _last_modified, fired)
    ELSE Handled(<<MonitorTask("move", src_path, dest_path)>>, _last_modified, fired)

(* A variant whose debounce is one clock for all paths. *)
on_modified_SharedClock(path, is_directory) ==
    IF is_directory THEN Handled(<<>>, _last_modified, fired)
    ELSE IF StartsWith(Name(path), <<".", "_">>) \/ ~is_comic_file(path)
    THEN Handled(<<>>, _last_modified, fired)
    ELSE LET last == IF DOMAIN _last_modified = {} THEN 0
                     ELSE MaxOf({_last_modified[k] : k \in DOMAIN _last_modified})
             cutoff == clock - debounce_seconds * 2
             recorded == [k \in (DOMAIN _last_modified) \cup {path} |->
                             IF k = path THEN clock ELSE _last_modified[k]]
         IN  IF clock - last < debounce_seconds THEN Handled(<<>>, _last_modified, fired)
             ELSE Handled(<<MonitorTask("scan_file", path, NoPath)>>,
                          Restrict(recorded, {k \in DOMAIN recorded : recorded[k] > cutoff}),
                          [k \in (DOMAIN fired) \cup {path} |->
                              IF k = path THEN clock ELSE fired[k]])

on_modified(path, is_directory) ==
    IF is_directory THEN Handled(<<>>, _last_modified, fired)
    ELSE IF StartsWith(Name(path), <<".", "_">>) \/ ~is_comic_file(path)
    THEN Handled(<<>>, _last_modified, fired)
    ELSE LET last == IF path \in DOMAIN _last_modified THEN _last_modified[path] ELSE 0
             cutoff == clock - debounce_seconds * 2
             recorded == [k \in (DOMAIN _last_modified) \cup {path} |->
                             IF k = path THEN clock ELSE _last_modified[k]]
         IN  IF clock - last < debounce_seconds THEN Handled(<<>>, _last_modified, fired)
             ELSE Handled(<<MonitorTask("scan_file", path, NoPath)>>,
                          Restrict(recorded, {k \in DOMAIN recorded : recorded[k] > cutoff}),
                          [k \in (DOMAIN fired) \cup {path} |->
                              IF k = path THEN clock ELSE fired[k]])

(* Time passes, up to a limit. *)
Elapse(limit) ==
    /\ clock < limit
    /\ clock' = clock + 1
    /\ UNCHANGED <<dirs, files, folders, comics, metadata, thumbs, nextUuid, now, lastOp, before,
                   fsOps, task_queue, _last_modified, stop_event, pc, batch, start_time,
                   optimized_tasks, next_task, worker_log, batches, events,
                   fired, main>>

Tick == Elapse(2 * debounce_seconds + MaxTicks)

(* The owner of the Event sets it. *)
SetStop ==
    /\ ~stop_event
    /\ stop_event' = TRUE
    /\ UNCHANGED <<dirs, files, folders, comics, metadata, thumbs, nextUuid, now, lastOp, before,
                   fsOps, task_queue, _last_modified, pc, batch, start_time, optimized_tasks,
                   next_task, clock, worker_log, batches, events, fired, main>>


(* The worker thread, process_queue.  pc is "idle" at the test of the      *)
(* while loop, "waiting" in task_queue.get(timeout=1.0), "accumulating" in *)
(* the window loop, "optimizing" after it, "dispatching" in the for loop   *)
(* and "exited" after the while loop.                                      *)
IndexVars == <<dirs, files, folders, comics, metadata, thumbs, nextUuid, now, lastOp, before, fsOps>>

CheckStop ==
    /\ pc = "idle"
    /\ pc' = IF stop_event THEN "exited" ELSE "waiting"
    /\ UNCHANGED IndexVars
    /\ UNCHANGED <<task_queue, _last_modified, stop_event, batch, start_time, optimized_tasks,
                   next_task, clock, worker_log, batches, events, fired, main>>

(* get returns the first task, or raises queue.Empty after the timeout. *)
TakeFirst ==
    /\ pc = "waiting"
    /\ IF task_queue = <<>>
       THEN /\ pc' = "idle"
            /\ UNCHANGED <<task_queue, batch, start_time, batches>>
       ELSE /\ batch' = <<Head(task_queue)>>
            /\ task_queue' = Tail(task_queue)
            /\ start_time' = clock
            /\ batches' = batches + 1
            /\ pc' = "accumulating"
    /\ UNCHANGED IndexVars
    /\ UNCHANGED <<_last_modified, stop_event, optimized_tasks, next_task, clock, worker_log,
                   events, fired, main>>

(* A variant that keeps taking tasks for as long as any are queued. *)
Accumulate_WhileArriving ==
    /\ pc = "accumulating"
    /\ IF task_queue # <<>>
       THEN /\ batch' = Append(batch, Head(task_queue))
            /\ task_queue' = Tail(task_queue)
            /\ pc' = pc
       ELSE /\ clock - start_time >= BATCH_WINDOW
            /\ pc' = "optimizing"
            /\ UNCHANGED <<task_queue, batch>>
    /\ UNCHANGED IndexVars
    /\ UNCHANGED <<_last_modified, stop_event, start_time, optimized_tasks, next_task,
                   clock, worker_log, batches, events, fired, main>>

(* One round of the window loop: get_nowait, or the end of the window. *)
Accumulate ==
    /\ pc = "accumulating"
    /\ IF clock - start_time < BATCH_WINDOW
       THEN /\ task_queue # <<>>
            /\ batch' = Append(batch, Head(task_queue))
            /\ task_queue' = Tail(task_queue)
            /\ pc' = pc
       ELSE /\ pc' = "optimizing"
            /\ UNCHANGED <<task_queue, batch>>
    /\ UNCHANGED IndexVars
    /\ UNCHANGED <<_last_modified, stop_event, start_time, optimized_tasks, next_task, clock,
                   worker_log, batches, events, fired, main>>

(* A variant that takes what is queued into the batch it optimizes. *)
Optimize_Drain ==
    /\ pc = "optimizing"
    /\ optimized_tasks' = optimize_tasks(batch \o task_queue)
    /\ batch' = batch \o task_queue
    /\ task_queue' = <<>>
    /\ next_task' = 1
    /\ pc' = "dispatching"
    /\ UNCHANGED IndexVars
    /\ UNCHANGED <<_last_modified, stop_event, start_time, clock, worker_log, batches, events,
                   fired, main>>

Optimize ==
    /\ pc = "optimizing"
    /\ optimized_tasks' = optimize_tasks(batch)
    /\ next_task' = 1
    /\ pc' = "dispatching"
    /\ UNCHANGED IndexVars
    /\ UNCHANGED <<task_queue, _last_modified, stop_event, batch, start_time, clock, worker_log,
                   batches, events, fired, main>>


(* What the call made for a task is named in lastOp. *)
Primitive(action) ==
    CASE action = "scan_folder" -> "scan_folder"
      [] action = "scan_file" -> "scan_file"
      [] action = "delete" -> "delete_path"
      [] action = "move" -> "move_path"

(* The body of the try of the dispatch loop.  With fault the call raises   *)
(* where it opens its session, before it has written anything.             *)
Execute(W, task, fault) ==
    IF fault THEN Result(W, {}, TRUE)
    ELSE CASE task.action = "scan_folder" -> scan_folder(W, task.path)
           [] task.action = "scan_file" -> scan_file(W, task.path)
           [] task.action = "delete" -> delete_path(W, task.path)
           [] task.action = "move" ->
                  IF task.dest_path # NoPath THEN move_path(W, task.path, task.dest_path, 0)
                  ELSE Result(W, {}, FALSE)

(* A variant in which an exception ends the dispatch loop. *)
Dispatch_AbortOnFailure(fault) ==
    /\ pc = "dispatching"
    /\ next_task <= Len(optimized_tasks)
    /\ \E task \in {optimized_tasks[next_task]} :
           /\ \E R \in {Execute(Session, task, fault)} :
                  Close(R, Primitive(task.action), task.path, task.dest_path, FALSE, 0, FALSE)
           /\ worker_log' = Append(worker_log,
                                   [batch |-> batches, index |-> next_task,
                                    of |-> Len(optimized_tasks), task |-> task,
                                    failed |-> fault, stop |-> stop_event])
    /\ next_task' = IF fault THEN Len(optimized_tasks) + 1 ELSE next_task + 1
    /\ UNCHANGED <<task_queue, _last_modified, stop_event, pc, batch, start_time,
                   optimized_tasks, clock, batches, events, fired, main>>

(* One round of the dispatch loop; an exception is logged and the loop     *)
(* goes on.                                                                *)
Dispatch(fault) ==
    /\ pc = "dispatching"
    /\ next_task <= Len(optimized_tasks)
    /\ \E task \in {optimized_tasks[next_task]} :
           /\ \E R \in {Execute(Session, task, fault)} :
                  Close(R, Primitive(task.action), task.path, task.dest_path, FALSE, 0, FALSE)
           /\ worker_log' = Append(worker_log,
                                   [batch |-> batches, index |-> next_task,
                                    of |-> Len(optimized_tasks), task |-> task,
                                    failed |-> fault, stop |-> stop_event])
    /\ next_task' = next_task + 1
    /\ UNCHANGED <<task_queue, _last_modified, stop_event, pc, batch, start_time,
                   optimized_tasks, clock, batches, events, fired, main>>

(* A variant in which the dispatch loop also ends when the stop signal is  *)
(* set.                                                                    *)
EndBatch_OnStop ==
    /\ pc = "dispatching"
    /\ next_task > Len(optimized_tasks) \/ stop_event
    /\ pc' = "idle"
    /\ UNCHANGED IndexVars
    /\ UNCHANGED <<task_queue, _last_modified, stop_event, batch, start_time, optimized_tasks,
                   next_task, clock, worker_log, batches, events, fired, main>>

(* The dispatch loop ends: back to the test of the while loop. *)
EndBatch ==
    /\ pc = "dispatching"
    /\ next_task > Len(optimized_tasks)
    /\ pc' = "idle"
    /\ UNCHANGED IndexVars
    /\ UNCHANGED <<task_queue, _last_modified, stop_event, batch, start_time, optimized_tasks,
                   next_task, clock, worker_log, batches, events, fired, main>>

MonitorNext ==
    \/ \E e \in CreatedEvents : on_created(e[1], e[2])
    \/ \E path \in DeletedEvents : on_deleted(path)
    \/ \E e \in MovedEvents : on_moved(e[1], e[2])
    \/ \E e \in ModifiedEvents : on_modified(e[1], e[2])
    \/ Tick
    \/ SetStop
    \/ CheckStop
    \/ TakeFirst
    \/ Accumulate
    \/ Optimize
    \/ \E fault \in BOOLEAN : Dispatch(fault)
    \/ EndBatch

(* The monitor is started on the library that holds the directories a, b  *)
(* and a/@, a hidden file and a corrupt archive.                           *)
MonitorInit == Init /\ DirB \in dirs

MonitorSpec == MonitorInit /\ [][MonitorNext]_vars

(* The handler's debounce next to the worker, over a longer time: modified *)
(* events of two files and of a directory.                                 *)
DebounceNext ==
    \/ \E e \in DebounceEvents : on_modified(e[1], e[2])
    \/ Elapse(2 * debounce_seconds + MaxLongTicks)
    \/ CheckStop
    \/ TakeFirst
    \/ Accumulate
    \/ Optimize
    \/ \E fault \in BOOLEAN : Dispatch(fault)
    \/ EndBatch

DebounceSpec == MonitorInit /\ [][DebounceNext]_vars

(* The handler alone, on every kind of event: directories, archives (also  *)
(* with an upper-case extension), other files, and names starting with ._  *)
Other == <<"x", ".", "c", "b", "x">>
Upper == <<"X", ".", "C", "B", "Z">>
HiddenDir == <<".", "_", "a">>

HandlerCreated ==
    {<<DirA, TRUE>>, <<LibraryRoot \o <<HiddenDir>>, TRUE>>, <<FileOf(DirA), FALSE>>,
     <<DirA \o <<Upper>>, FALSE>>, <<DirA \o <<Other>>, FALSE>>, <<DirA \o <<Hidden>>, FALSE>>}
HandlerDeleted == {DirA, FileOf(DirA), DirA \o <<Other>>, DirA \o <<Hidden>>}
HandlerMoved ==
    {<<FileOf(DirA), FileOf(DirB)>>, <<DirA \o <<Hidden>>, FileOf(DirB)>>,
     <<FileOf(DirA), DirB \o <<Hidden>>>>, <<DirA, DirB>>}
HandlerModified ==
    {<<FileOf(DirA), FALSE>>, <<DirA \o <<Other>>, FALSE>>, <<DirA \o <<Hidden>>, FALSE>>,
     <<DirA, TRUE>>}

HandlerNext ==
    \/ \E e \in HandlerCreated : on_created(e[1], e[2])
    \/ \E path \in HandlerDeleted : on_deleted(path)
    \/ \E e \in HandlerMoved : on_moved(e[1], e[2])
    \/ \E e \in HandlerModified : on_modified(e[1], e[2])
    \/ Tick

HandlerSpec == MonitorInit /\ [][HandlerNext]_vars

(* The library whose configured path is a symbolic link: full scans take   *)
(* the resolved root, the monitor's scans get the paths of the events,     *)
(* which begin with the path as configured.                                *)
Linked(path) == LinkRoot \o Drop(path, Len(LibraryRoot))

LinkedFiles == {Linked(FileOf(DirA)), Linked(FileOf(DirAS))}
LinkedDirs == {Linked(DirA), Linked(DirB)}

LinkNext ==
    \/ \E force \in BOOLEAN, failing \in StatFailures : ScanLibrary(LibraryRoot, force, failing)
    \/ \E path \in LinkedFiles : ScanFile(path)
    \/ \E path \in LinkedDirs : ScanFolder(path)
    \/ \E path \in WriteTargets, content \in Contents, touch \in BOOLEAN :
           FsWrite(path, content, touch)

LinkSpec == Init /\ [][LinkNext]_vars

(* serve: the initial scan, then start_file_monitoring (the worker thread, *)
(* then the observer), then the server.  main is "start" before the call   *)
(* of scan_library, "scanning" during it, "scanned" after it has returned, *)
(* "worker_started" after worker.start() and "serving" after               *)
(* observer.start().  pc is "unstarted" until the worker thread runs.      *)
ServeInit ==
    /\ Started
    /\ DirB \in dirs
    /\ pc = "unstarted"
    /\ main = "start"

WorkerVars ==
    <<task_queue, _last_modified, stop_event, batch, start_time, optimized_tasks, next_task,
      clock, worker_log, batches, events, fired>>

ScanBegins ==
    /\ main = "start"
    /\ main' = "scanning"
    /\ UNCHANGED IndexVars
    /\ UNCHANGED WorkerVars
    /\ UNCHANGED pc

ScanReturns ==
    /\ main = "scanning"
    /\ main' = "scanned"
    /\ \E A \in {scan_library(Session, LibraryRoot, FALSE)} :
           Close([W |-> A.W, stats |-> A.stats, log |-> A.log, failed |-> FALSE],
                 "scan_library", LibraryRoot, <<>>, FALSE, 0, FALSE)
    /\ UNCHANGED WorkerVars
    /\ UNCHANGED pc

(* A variant that starts the worker thread before the initial scan. *)
StartWorker_BeforeScan ==
    /\ main \in {"start", "scanned"}
    /\ pc = "unstarted"
    /\ main' = IF main = "start" THEN main ELSE "worker_started"
    /\ pc' = "idle"
    /\ UNCHANGED IndexVars
    /\ UNCHANGED WorkerVars

StartWorker ==
    /\ main = "scanned"
    /\ main' = "worker_started"
    /\ pc' = "idle"
    /\ UNCHANGED IndexVars
    /\ UNCHANGED WorkerVars

StartObserver ==
    /\ main = "worker_started"
    /\ main' = "serving"
    /\ UNCHANGED IndexVars
    /\ UNCHANGED WorkerVars
    /\ UNCHANGED pc

ServeEvents == {<<DirA, TRUE>>, <<FileOf(DirB), FALSE>>}

ServeNext ==
    \/ ScanBegins
    \/ ScanReturns
    \/ StartWorker
    \/ StartObserver
    \/ \E e \in ServeEvents : on_created(e[1], e[2])
    \/ Tick
    \/ CheckStop
    \/ TakeFirst
    \/ Accumulate
    \/ Optimize
    \/ \E fault \in BOOLEAN : Dispatch(fault)
    \/ EndBatch

ServeSpec == ServeInit /\ [][ServeNext]_vars

-----------------------------------------------------------------------------
(* Archive reader (server/archive.py).  The bytes of a file are a Zip      *)
(* archive, a Rar archive or neither; rarfile says whether the rarfile     *)
(* module could be imported.                                               *)

Formats == {"zip", "rar", "other"}

BytesAt(path) == IF IsFile(path) THEN FileAt(path).content.bytes ELSE "other"

(* zipfile.ZipFile(path) returns; it raises BadZipFile otherwise *)
ZipArchiveWrapper(path) == BytesAt(path) = "zip"

(* rarfile.RarFile(path) returns; ImportError without the module and       *)
(* NotRarFile for other bytes                                              *)
RarArchiveWrapper(path, rarfile) == rarfile /\ BytesAt(path) = "rar"

Cbr == <<"x", ".", "c", "b", "r">>

Opens(wrapper, path, rarfile) ==
    IF wrapper = "zip" THEN ZipArchiveWrapper(path) ELSE RarArchiveWrapper(path, rarfile)

WrapperError(wrapper, rarfile) ==
    IF wrapper = "zip" THEN "BadZipFile" ELSE IF rarfile THEN "NotRarFile" ELSE "ImportError"

(* A variant that tries the format of the extension only. *)
get_archive_PrimaryOnly(path, rarfile) ==
    IF ~Exists(path) THEN [opened |-> "none", raised |-> "FileNotFoundError"]
    ELSE LET suffix == LowerStr(Suffix(path))
             primary == IF suffix = Suffix(<<Cbz>>) THEN "zip" ELSE "rar"
         IN  IF suffix \notin COMIC_EXTENSIONS
             THEN [opened |-> "none", raised |-> "ValueError"]
             ELSE IF Opens(primary, path, rarfile) THEN [opened |-> primary, raised |-> "none"]
             ELSE [opened |-> "none", raised |-> WrapperError(primary, rarfile)]

(* opened is the wrapper returned, raised the exception that leaves.       *)
get_archive(path, rarfile) ==
    IF ~Exists(path) THEN [opened |-> "none", raised |-> "FileNotFoundError"]
    ELSE LET suffix == LowerStr(Suffix(path))
             primary == IF suffix = Suffix(<<Cbz>>) THEN "zip" ELSE "rar"
             fallback == IF suffix = Suffix(<<Cbz>>) THEN "rar" ELSE "zip"
         IN  IF suffix \notin {Suffix(<<Cbz>>), Suffix(<<Cbr>>)}
             THEN [opened |-> "none", raised |-> "ValueError"]
             ELSE IF Opens(primary, path, rarfile) THEN [opened |-> primary, raised |-> "none"]
             ELSE IF Opens(fallback, path, rarfile)
             THEN [opened |-> fallback, raised |-> "none"]
             ELSE [opened |-> "none", raised |-> WrapperError(fallback, rarfile)]

(* The inputs of the readers: one file in the library root, or none. *)
ReaderNames == {Cbz, Cbr, Upper, <<"x", ".", "t", "x", "t">>, <<".", "c", "b", "z">>}

ReaderPaths == {LibraryRoot \o <<name>> : name \in ReaderNames}

IssueTexts ==
    {NoText, <<"7">>, <<"0">>, <<"-", "7">>, <<"+", "7">>, <<"1", "_", "0">>, <<"_", "7">>,
     <<"1", ".", "5">>, <<"x">>}

Sidecars ==
    {NoSidecar}
    \cup {[present |-> TRUE, form |-> form, Series |-> NoText, Title |-> <<"T">>,
           Issue |-> <<"7">>] : form \in {"blank", "malformed", "multibyte"}}
    \cup {[present |-> TRUE, form |-> "tree", Series |-> <<"Z">>, Title |-> title,
           Issue |-> issue] : title \in {NoText, <<"T">>}, issue \in IssueTexts}

ReaderInit ==
    /\ dirs = {LibraryRoot}
    /\ \/ files = <<>>
       \/ \E path \in ReaderPaths, bytes \in Formats, info \in Sidecars :
              files = (path :> [mtime |-> 1, content |-> [bytes |-> bytes, info |-> info]])
    /\ Fresh
    /\ pc = "idle"
    /\ main = "serving"

(* A call of a reader leaves everything but its result as it was. *)
Returned(op, path, rarfile, result) ==
    /\ lastOp' = [op |-> op, path |-> path, rarfile |-> rarfile, result |-> result]
    /\ UNCHANGED <<dirs, files, folders, comics, metadata, thumbs, nextUuid, now, before, fsOps>>
    /\ UNCHANGED monitorVars

GetArchive(path, rarfile) == Returned("get_archive", path, rarfile, get_archive(path, rarfile))

(* read_comicinfo_from_archive(path): any exception of get_archive, of     *)
(* list_names and of read is caught.                                       *)
ReadComicInfo(path, rarfile) ==
    Returned("read_comicinfo_from_archive", path, rarfile,
             read_comicinfo_from_archive(
                 [valid |-> get_archive(path, rarfile).raised = "none",
                  info |-> IF IsFile(path) THEN FileAt(path).content.info ELSE NoSidecar]))

(* parse_comicinfo_xml on the bytes of the sidecar of the file *)
ParseComicInfo(path) ==
    /\ IsFile(path)
    /\ FileAt(path).content.info.present
    /\ Returned("parse_comicinfo_xml", path, FALSE,
                parse_comicinfo_xml(FileAt(path).content.info))

ReaderNext ==
    \/ \E path \in ReaderPaths, rarfile \in BOOLEAN : GetArchive(path, rarfile)
    \/ \E path \in ReaderPaths, rarfile \in BOOLEAN : ReadComicInfo(path, rarfile)
    \/ \E path \in ReaderPaths : ParseComicInfo(path)

ReaderSpec == ReaderInit /\ [][ReaderNext]_vars

(* Scans under the failures a scan can meet: a target that does not exist, *)
(* a file whose stat fails, an archive that does not open, and a sidecar   *)
(* the XML parser refuses with an exception other than ParseError.         *)
FailureNext ==
    \/ \E base \in {LibraryRoot, DirA, DirB}, force \in BOOLEAN, failing \in StatFailures :
           ScanLibrary(base, force, failing)
    \/ \E path \in WriteTargets : ScanFile(path)
    \/ ScanFolder(DirA)
    \/ \E path \in WriteTargets, content \in {Plain, Corrupt, Encoded}, touch \in BOOLEAN :
           FsWrite(path, content, touch)

FailureSpec == Init /\ [][FailureNext]_vars

(* The monitor next to the filesystem it watches: after the startup scan   *)
(* comic files are created, deleted and renamed in the library, and the    *)
(* observer reports each change to the handler before the next change.     *)
BatchFiles == {FileOf(DirA), FileOf(DirAS), FileOf(LibraryRoot), DirA \o <<Upper>>}

(* The observer runs, every change so far is reported, and the worker is   *)
(* not in its dispatch loop.                                               *)
Quiet ==
    /\ main = "serving"
    /\ events = fsOps
    /\ fsOps < MaxBatchOps
    /\ pc \in {"idle", "waiting", "accumulating"}

FileCreated(path) ==
    /\ Quiet
    /\ ~Exists(path)
    /\ Write(path, Plain, FALSE)

FileDeleted(path) ==
    /\ Quiet
    /\ IsFile(path)
    /\ Remove(path)

FileMoved(src, dest) ==
    /\ Quiet
    /\ IsFile(src)
    /\ Rename(src, dest)

(* The observer calls the handler with the event of the last change. *)
Observe ==
    /\ events < fsOps
    /\ CASE lastOp.op = "write" -> on_created(lastOp.path, FALSE)
         [] lastOp.op = "remove" -> on_deleted(lastOp.path)
         [] lastOp.op = "rename" -> on_moved(lastOp.path, lastOp.dest)
         [] OTHER -> FALSE

BatchInit ==
    /\ Started
    /\ DirAS \in dirs
    /\ pc = "unstarted"
    /\ main = "start"

BatchNext ==
    \/ ScanBegins
    \/ ScanReturns
    \/ StartWorker
    \/ StartObserver
    \/ \E path \in BatchFiles : FileCreated(path)
    \/ \E path \in BatchFiles : FileDeleted(path)
    \/ \E src \in BatchFiles, dest \in BatchFiles : FileMoved(src, dest)
    \/ Observe
    \/ Tick
    \/ CheckStop
    \/ TakeFirst
    \/ Accumulate
    \/ Optimize
    \/ Dispatch(FALSE)
    \/ EndBatch

BatchSpec == BatchInit /\ [][BatchNext]_vars

(* A directory of the library is renamed after the startup scan.  The      *)
(* observer reports the move of the directory and the move of each file    *)
(* below it, in any order.                                                 *)
DirMoved(src, dest) ==
    /\ main = "serving"
    /\ fsOps = 0
    /\ pc \in {"idle", "waiting", "accumulating"}
    /\ IsDir(src)
    /\ Rename(src, dest)

(* The events of the last change, as <<source, destination>>. *)
MoveEvents ==
    IF lastOp.op # "rename" THEN {}
    ELSE {<<lastOp.path, lastOp.dest>>}
         \cup {<<lastOp.path \o Drop(f, Len(lastOp.dest)), f>>
               : f \in {g \in DOMAIN files : IsRelativeTo(g, lastOp.dest)}}

ObserveMoved ==
    \E e \in MoveEvents :
        /\ MonitorTask("move", e[1], e[2]) \notin Range(task_queue) \cup Range(batch)
        /\ on_moved(e[1], e[2])

DirMoveNext ==
    \/ ScanBegins
    \/ ScanReturns
    \/ StartWorker
    \/ StartObserver
    \/ DirMoved(DirA, DirB)
    \/ ObserveMoved
    \/ Tick
    \/ CheckStop
    \/ TakeFirst
    \/ Accumulate
    \/ Optimize
    \/ Dispatch(FALSE)
    \/ EndBatch

DirMoveSpec == BatchInit /\ [][DirMoveNext]_vars

(* Moves of a comic file: to a comic name, to a name that is no comic      *)
(* name, and onto a path the index already holds.                          *)
FileMovePairs ==
    {<<FileOf(DirA), DirA \o <<Other>>>>, <<FileOf(DirA), FileOf(DirAS)>>,
     <<FileOf(DirA), FileOf(LibraryRoot)>>, <<FileOf(DirA), DirA \o <<Upper>>>>}

FileMoveNext ==
    \/ \E force \in BOOLEAN : ScanLibrary(LibraryRoot, force, {})
    \/ \E pair \in FileMovePairs : FsRename(pair[1], pair[2])
    \/ \E path \in {FileOf(DirAS), FileOf(LibraryRoot)} : FsRemove(path)
    \/ \E pair \in FileMovePairs : MovePath(pair[1], pair[2], 0)

FileMoveSpec == Init /\ [][FileMoveNext]_vars

(* Deletions in a library whose names differ in letter case only or share  *)
(* their first characters: directories a, A and ab, files x.cbz and X.CBZ. *)
DirAB == LibraryRoot \o << <<"a", "b">> >>

DeleteInit ==
    /\ dirs = {LibraryRoot, DirA, DirUpA, DirAB}
    /\ files = (FileOf(DirA) :> File(Plain)) @@ ((DirA \o <<Upper>>) :> File(Tagged))
               @@ (FileOf(DirUpA) :> File(Plain)) @@ (FileOf(DirAB) :> File(Plain))
    /\ Fresh
    /\ pc = "idle"
    /\ main = "serving"

Deleted == {DirA, FileOf(DirA), DirA \o <<Upper>>}

DeleteNext ==
    \/ \E base \in {LibraryRoot, DirAB}, force \in BOOLEAN : ScanLibrary(base, force, {})
    \/ \E path \in Deleted : FsRemove(path)
    \/ \E path \in Deleted : DeletePath(path)

DeleteSpec == DeleteInit /\ [][DeleteNext]_vars

-----------------------------------------------------------------------------
(* The worker next to the handler when the Event is never set and time     *)
(* goes on for as long as the worker waits for it.                         *)

(* time.sleep(0.1) in the window loop: the queue is empty, the window is   *)
(* open, and the clock advances.                                           *)
Sleep ==
    /\ pc = "accumulating"
    /\ clock - start_time < BATCH_WINDOW
    /\ task_queue = <<>>
    /\ Elapse(clock + 1)

MaxLiveEvents == 2
MaxLiveTicks == 1

LiveCreatedEvents == {<<DirA, TRUE>>, <<FileOf(DirA), FALSE>>}
LiveMovedEvents == {<<FileOf(DirA), FileOf(DirB)>>, <<FileOf(DirA), FileOf(DirAS)>>}

(* The tasks the handler puts for these events. *)
LiveTasks ==
    {MonitorTask("scan_folder", DirA, NoPath), MonitorTask("scan_file", FileOf(DirA), NoPath),
     MonitorTask("delete", DirA, NoPath), MonitorTask("delete", FileOf(DirA), NoPath),
     MonitorTask("move", FileOf(DirA), FileOf(DirB)),
     MonitorTask("move", FileOf(DirA), FileOf(DirAS))}

LiveCreated(path, is_directory) == events < MaxLiveEvents /\ on_created(path, is_directory)
LiveDeleted(path) == events < MaxLiveEvents /\ on_deleted(path)
LiveMoved(src_path, dest_path) == events < MaxLiveEvents /\ on_moved(src_path, dest_path)

(* A step of the thread that runs process_queue, outside the calls of the  *)
(* dispatch loop.                                                          *)
Worker == CheckStop \/ TakeFirst \/ Accumulate \/ Sleep \/ Optimize \/ EndBatch

(* A call of the dispatch loop returns, or raises an Exception that is     *)
(* logged, and the loop goes on to the next task: the step of Dispatch as  *)
(* the loop counter shows it.                                              *)
DispatchReturns ==
    /\ pc = "dispatching"
    /\ next_task <= Len(optimized_tasks)
    /\ next_task' = next_task + 1

LiveNext ==
    \/ \E e \in LiveCreatedEvents : LiveCreated(e[1], e[2])
    \/ \E path \in DeletedEvents : LiveDeleted(path)
    \/ \E e \in LiveMovedEvents : LiveMoved(e[1], e[2])
    \/ Elapse(2 * debounce_seconds + MaxLiveTicks)
    \/ CheckStop
    \/ TakeFirst
    \/ Accumulate
    \/ Sleep
    \/ Optimize
    \/ \E fault \in BOOLEAN : Dispatch(fault)
    \/ EndBatch

(* The thread of process_queue is scheduled for as long as it can take a   *)
(* step: get, get_nowait and sleep return, and so does every dispatched    *)
(* call.                                                                   *)
LiveSpec ==
    MonitorInit /\ [][LiveNext]_vars /\ WF_vars(Worker) /\ WF_next_task(DispatchReturns)

(* Scans of a library in which stat of a walked file can fail (the file is *)
(* unreadable, or goes away between the walk and the stat) while files     *)
(* are written between the scans.                                          *)
StatNext ==
    \/ \E base \in {LibraryRoot, DirA}, force \in BOOLEAN, failing \in StatFailures :
           ScanLibrary(base, force, failing)
    \/ \E path \in WriteTargets : ScanFile(path)
    \/ \E path \in WriteTargets, content \in Contents, touch \in BOOLEAN :
           FsWrite(path, content, touch)

StatSpec == Init /\ [][StatNext]_vars

(* The operations of the index and of the file system, every stat of a     *)
(* walked file succeeding.                                                 *)
Next ==
    \/ \E base \in ScanBases, force \in BOOLEAN : ScanLibrary(base, force, {})
    \/ \E path \in WriteTargets : ScanFile(path)
    \/ \E path \in MkdirTargets \cup {DirA} : ScanFolder(path)
    \/ \E path \in DeleteTargets : DeletePath(path)
    \/ \E pair \in MovePairs, fault \in Faults : MovePath(pair[1], pair[2], fault)
    \/ \E c \in comics : UpdateProgress(c.uuid)
    \/ \E c \in comics : UpdateMetadata(c.uuid)
    \/ \E path \in WriteTargets, content \in Contents, touch \in BOOLEAN :
           FsWrite(path, content, touch)
    \/ \E path \in MkdirTargets : FsMkdir(path)
    \/ \E path \in RemoveTargets : FsRemove(path)
    \/ \E pair \in RenamePairs : FsRename(pair[1], pair[2])

Spec == Init /\ [][Next]_vars

--------------------------------------------------------------------------------------------------------------------------------------
(* Vocabulary of the properties.  A property of an operation is stated in  *)
(* the state the operation leaves: before holds the index it started from, *)
(* lastOp what it was called with and what it returned.                    *)

ItemPaths == {to_absolute(c.path, LibraryRoot) : c \in comics}

HasItem(path) == \E c \in comics : c.path = to_relative(path, LibraryRoot)

(* path lies under base: base followed by further parts *)
Under(path, base) == IsRelativeTo(path, base) /\ path # base

(* The archive paths under base that are on disk or in the index. *)
ArchivePathsUnder(base) ==
    {p \in (DOMAIN files) \cup ItemPaths : Under(p, base) /\ is_comic_file(p)}

(* A walk of base reaches the file at path: no directory between base and  *)
(* the file is ignored, nor is the file's own name.                        *)
Reached(path, base) ==
    /\ Under(path, base)
    /\ \A i \in (Len(base) + 1)..Len(path) : ~_should_ignore(path[i], IgnorePatterns)

(* The last thing that happened is a call of op. *)
Called(op) == lastOp.op = op

(* The last thing that happened is a call that processed files. *)
Processed == lastOp.op \in {"scan_library", "scan_file", "scan_folder", "move_path"}

ScanCompleted == Called("scan_library") /\ ~lastOp.failed

(* The Items of rows at the absolute path. *)
ItemsAt(rows, path) == {c \in rows : c.path = to_relative(path, LibraryRoot)}

(* The Metadata rows of the Item at the absolute path. *)
MetadataAt(items, rows, path) ==
    {m \in rows : \E c \in ItemsAt(items, path) : m.comic_id = c.id}

(* The Items without their last-synced timestamps. *)
Unsynced(rows) == {[c EXCEPT !.last_scanned_at = Null] : c \in rows}

(* The relative path of a row lies under the relative path rel. *)
RelUnder(path, rel) == StartsWith(path, rel \o <<Slash>>)

(* The relative path with its leading old replaced by new. *)
Rebased(path, old, new) == new \o Drop(path, Len(old))

(* move_path treats the pair as the move of a folder. *)
IsFolderMove(src_path, dest_path) ==
    IF Exists(dest_path) THEN IsDir(dest_path) ELSE Suffix(src_path) \notin COMIC_EXTENSIONS

(* The event before the last call is the rename of src to dest on disk. *)
Renamed(src_path, dest_path) ==
    lastOp.prev = [op |-> "rename", path |-> src_path, dest |-> dest_path]

(* The directory has a subdirectory on disk that a walk does not ignore. *)
HasSubfolders(dir_path) ==
    \E d \in dirs : /\ d # dir_path /\ Parent(d) = dir_path
                    /\ ~_should_ignore(Name(d), IgnorePatterns)

-----------------------------------------------------------------------------
(* C1 as stated: after scan_library completes on a subtree, for every      *)
(* archive path under it an Item exists if and only if the file exists on  *)
(* disk.  A corrupt or ignored file exists without an Item.                *)
C1_IndexIffOnDisk ==
    ScanCompleted =>
        \A p \in ArchivePathsUnder(lastOp.path) : HasItem(p) <=> p \in DOMAIN files

(* C1 amended: after scan_library completes on a subtree, for every        *)
(* archive path under it: if the file does not exist on disk, no Item has  *)
(* that path; and if the file exists, is reached by the walk (nothing      *)
(* between the subtree and the file is ignored) and passes validation, an  *)
(* Item has that path.                                                     *)
C1_IndexMatchesValidFiles ==
    ScanCompleted =>
        \A p \in ArchivePathsUnder(lastOp.path) :
            /\ p \notin DOMAIN files => ~HasItem(p)
            /\ (p \in DOMAIN files /\ Reached(p, lastOp.path) /\ files[p].content.valid)
                   => HasItem(p)

C1_Witness ==
    /\ ScanCompleted
    /\ lastOp.stats.deleted > 0
    /\ \E p \in ArchivePathsUnder(lastOp.path) : p \in DOMAIN files /\ HasItem(p)
    /\ \E p \in ArchivePathsUnder(lastOp.path) : p \in DOMAIN files /\ ~HasItem(p)

(* C2: at the end of scan_library on subtree S, every Item whose path lies *)
(* under S, that this scan did not create or update, and whose file does   *)
(* not exist on disk is gone from the index, and so is its thumbnail file. *)
C2_MissingItemsDeleted ==
    ScanCompleted =>
        \A c \in before.comics :
            (/\ Under(to_absolute(c.path, LibraryRoot), lastOp.path)
             /\ to_absolute(c.path, LibraryRoot) \notin DOMAIN files
             /\ \A e \in lastOp.log : e.path = to_absolute(c.path, LibraryRoot)
                                         => e.outcome # "processed")
            => /\ \A d \in comics : d.uuid # c.uuid /\ d.path # c.path
               /\ c.uuid \notin thumbs

C2_Witness ==
    /\ ScanCompleted
    /\ lastOp.stats.deleted > 0
    /\ \E c \in before.comics :
           /\ Under(to_absolute(c.path, LibraryRoot), lastOp.path)
           /\ to_absolute(c.path, LibraryRoot) \notin DOMAIN files
           /\ c.uuid \in before.thumbs
           /\ c.uuid \notin thumbs

(* C3: a scan_library with force = false of a subtree whose files and      *)
(* index have not changed since the previous completed scan of it creates, *)
(* updates and deletes no Item, Folder or Metadata record (last-synced     *)
(* timestamps apart) and returns added = updated = deleted = 0.            *)
C3_RescanChangesNothing ==
    (ScanCompleted /\ lastOp.rescan /\ ~lastOp.force) =>
        /\ Unsynced(comics) = Unsynced(before.comics)
        /\ folders = before.folders
        /\ metadata = before.metadata
        /\ lastOp.stats.added = 0
        /\ lastOp.stats.updated = 0
        /\ lastOp.stats.deleted = 0

(* The mtime-and-metadata test of an Item indexed before the call against  *)
(* its file.                                                               *)
Unchanged(c, path) ==
    /\ c.file_modified_at = files[path].mtime
    /\ \E m \in before.metadata : m.comic_id = c.id

(* The file of Item c is a corrupt archive that a walk of base reaches. *)
CorruptReached(c, base) ==
    LET p == to_absolute(c.path, LibraryRoot)
    IN  p \in DOMAIN files /\ ~files[p].content.valid /\ Reached(p, base)

(* The Item is gone with its thumbnail, its file was counted as skipped,   *)
(* and the scan returned normally.                                         *)
RemovedAsCorrupt(c) ==
    /\ ~lastOp.failed
    /\ ItemsAt(comics, to_absolute(c.path, LibraryRoot)) = {}
    /\ c.uuid \notin thumbs
    /\ lastOp.stats.skipped > 0
    /\ \E e \in lastOp.log : e.path = to_absolute(c.path, LibraryRoot) /\ e.skipped

(* C4 as stated: an indexed Item whose archive has become corrupt is gone  *)
(* from the index, with its thumbnail, by the end of the next scan_library *)
(* whose walk reaches the file; the file counts as skipped and the scan    *)
(* returns normally.  A scan that finds the modification time unchanged    *)
(* does not open the archive and keeps the Item.                           *)
C4_CorruptItemRemoved ==
    Called("scan_library") =>
        \A c \in before.comics : CorruptReached(c, lastOp.path) => RemovedAsCorrupt(c)

(* C4 amended: an indexed Item whose archive has become corrupt is gone    *)
(* from the index, with its thumbnail, by the end of the next scan_library *)
(* whose walk reaches the file and does not skip it (the scan is forced,   *)
(* or the file's modification time differs from the stored one, or the     *)
(* Item has no Metadata); the file counts as skipped and the scan returns  *)
(* normally.                                                               *)
C4_CorruptItemRemovedUnlessSkipped ==
    Called("scan_library") =>
        \A c \in before.comics :
            (/\ CorruptReached(c, lastOp.path)
             /\ (lastOp.force \/ ~Unchanged(c, to_absolute(c.path, LibraryRoot))))
            => RemovedAsCorrupt(c)

C4_Witness ==
    /\ ScanCompleted
    /\ \E e \in lastOp.log : /\ e.outcome = "corrupt" /\ e.existing
                             /\ ItemsAt(before.comics, e.path) # {}
                             /\ ItemsAt(comics, e.path) = {}
                             /\ e.path \in DOMAIN files

(* C5: a file is skipped as unchanged if and only if an Item exists at its *)
(* path, the stored modification time equals the file's, a Metadata record *)
(* exists for the Item, and force is false; in every other case the file   *)
(* is validated, and upserted when it is a valid archive.                  *)
C5_SkipIffUnchanged ==
    Processed =>
        \A e \in lastOp.log :
            e.outcome # "unstatable" =>
                LET item == ItemsAt(before.comics, e.path)
                    cond == /\ item # {}
                            /\ \A c \in item : Unchanged(c, e.path)
                            /\ ~lastOp.force
                    content == files[e.path].content
                IN  /\ (e.outcome = "unchanged") <=> cond
                    /\ (~cond /\ content.valid) =>
                           /\ e.outcome = "processed"
                           /\ \E c \in ItemsAt(comics, e.path) :
                                  /\ c.file_modified_at = files[e.path].mtime
                                  /\ c.page_count = content.pages
                                  /\ c.file_size = content.size
                    /\ (~cond /\ ~content.valid) =>
                           /\ e.outcome = "corrupt"
                           /\ ItemsAt(comics, e.path) = {}

C5_Witness ==
    /\ Called("scan_library") /\ ~lastOp.force
    /\ \E e \in lastOp.log : e.outcome = "unchanged"
    /\ \E e \in lastOp.log : e.outcome = "processed" /\ e.existing

(* C6: a folder move from P to Q keeps every Folder and Item that was      *)
(* under P, none lost and none added, and gives the Folder at P and every  *)
(* descendant Folder and Item the path with the leading P replaced by Q.   *)
C6_FolderMoveRewritesDescendants ==
    (/\ Called("move_path") /\ lastOp.fault = 0
     /\ Renamed(lastOp.path, lastOp.dest) /\ IsDir(lastOp.dest)) =>
        LET P == to_relative(lastOp.path, LibraryRoot)
            Q == to_relative(lastOp.dest, LibraryRoot)
        IN  /\ \A f \in before.folders :
                   (f.path = P \/ RelUnder(f.path, P)) =>
                       \E g \in folders : g.id = f.id /\ g.path = Rebased(f.path, P, Q)
            /\ \A c \in before.comics :
                   RelUnder(c.path, P) =>
                       \E d \in comics : d.id = c.id /\ d.path = Rebased(c.path, P, Q)
            /\ Cardinality(comics) = Cardinality(before.comics)
            /\ Cardinality({f \in folders : f.path = Q \/ RelUnder(f.path, Q)})
                   = Cardinality({f \in before.folders : f.path = P \/ RelUnder(f.path, P)})

(* C7: a folder move is one unit of work: when a step of it fails, the     *)
(* persisted index is exactly what it was before the call.                 *)
C7_FailedFolderMoveChangesNothing ==
    (/\ Called("move_path") /\ lastOp.failed
     /\ IsFolderMove(lastOp.path, lastOp.dest)) =>
        /\ folders = before.folders
        /\ comics = before.comics
        /\ metadata = before.metadata

C7_Witness ==
    /\ Called("move_path") /\ lastOp.failed /\ lastOp.fault = 2
    /\ IsFolderMove(lastOp.path, lastOp.dest)
    /\ \E f \in folders : f.path = to_relative(lastOp.path, LibraryRoot)
    /\ \A f \in folders : f.path # to_relative(lastOp.dest, LibraryRoot)
    /\ \E c \in comics : RelUnder(c.path, to_relative(lastOp.path, LibraryRoot))

(* C8: an Item's uuid is assigned when the Item is first inserted and no   *)
(* later operation changes it: an update keeps it, a file move carries it  *)
(* to the new path, a folder move carries it to the rewritten path; and no *)
(* two Items share a uuid.                                                 *)
C8_UuidStable ==
    /\ \A c, d \in comics : c.uuid = d.uuid => c = d
    /\ \A c \in before.comics, d \in comics : d.path = c.path => d.uuid = c.uuid
    /\ \A e \in lastOp.log :
           (e.outcome = "processed" /\ e.existing) =>
               /\ ItemsAt(before.comics, e.path) # {}
               /\ {d.uuid : d \in ItemsAt(comics, e.path)}
                      = {c.uuid : c \in ItemsAt(before.comics, e.path)}
    /\ (/\ Called("move_path") /\ ~lastOp.failed
        /\ ~IsFolderMove(lastOp.path, lastOp.dest) /\ is_comic_file(lastOp.dest)) =>
           \A c \in ItemsAt(before.comics, lastOp.path) :
               \E d \in ItemsAt(comics, lastOp.dest) : d.uuid = c.uuid
    /\ (/\ Called("move_path") /\ ~lastOp.failed
        /\ IsFolderMove(lastOp.path, lastOp.dest)) =>
           \A c \in before.comics :
               RelUnder(c.path, to_relative(lastOp.path, LibraryRoot)) =>
                   \E d \in comics :
                       /\ d.uuid = c.uuid
                       /\ d.path = Rebased(c.path, to_relative(lastOp.path, LibraryRoot),
                                           to_relative(lastOp.dest, LibraryRoot))

C8_Witness ==
    /\ Called("move_path") /\ ~lastOp.failed
    /\ Renamed(lastOp.path, lastOp.dest)
    /\ Cardinality(comics) > 1
    /\ \E c \in before.comics :
           /\ RelUnder(c.path, to_relative(lastOp.path, LibraryRoot))
           /\ \E d \in comics : d.uuid = c.uuid /\ d.path # c.path

(* C9: the series that processing writes for a file is the name of the     *)
(* folder directly holding it, and is written only when that folder is a   *)
(* leaf; a file whose folder has subfolders gets no series, and the Series *)
(* tag of the sidecar never decides it.                                    *)
C9_SeriesFromLeafFolder ==
    \A e \in lastOp.log :
        e.outcome = "processed" =>
            /\ e.payload.series \in {NoText, Name(Parent(e.path))}
            /\ HasSubfolders(Parent(e.path)) => e.payload.series = NoText

(* C10: when an existing Item is processed again, each of title and issue  *)
(* number takes the value the sidecar supplies and keeps its value when    *)
(* the sidecar supplies none; the series takes the folder name when one is *)
(* derived and keeps its value otherwise; the reading progress keeps its   *)
(* value.                                                                  *)
C10_MergeKeepsUnsuppliedFields ==
    Processed =>
        \A e \in lastOp.log :
            (e.outcome = "processed" /\ e.existing) =>
                LET info == files[e.path].content.info
                    title == IF info.present THEN info.Title ELSE NoText
                    issue == IF info.present THEN _int_or_none(info.Issue) ELSE <<>>
                IN  /\ MetadataAt(comics, metadata, e.path) # {}
                    /\ \A m \in MetadataAt(before.comics, before.metadata, e.path),
                          n \in MetadataAt(comics, metadata, e.path) :
                           /\ n.title = IF title # NoText THEN title ELSE m.title
                           /\ n.issue_number = IF issue # <<>> THEN issue ELSE m.issue_number
                           /\ n.series = IF e.payload.series # NoText THEN e.payload.series
                                         ELSE m.series
                           /\ n.is_completed = m.is_completed
                           /\ n.current_page = m.current_page
                           /\ n.last_read_at = m.last_read_at

C10_Witness ==
    \E e \in lastOp.log :
        /\ e.outcome = "processed" /\ e.existing
        /\ e.payload.title = NoText
        /\ \E m \in MetadataAt(comics, metadata, e.path) : m.title # NoText /\ m.is_completed

-----------------------------------------------------------------------------
(* The last thing that happened is a scan, a delete or a move. *)
IndexWritten ==
    lastOp.op \in {"scan_library", "scan_file", "scan_folder", "delete_path", "move_path"}

(* C11: after every scan, delete and move operation each Item of the index *)
(* has exactly one Metadata record, and no Metadata record is without its  *)
(* Item.                                                                   *)
C11_OneMetadataPerItem ==
    IndexWritten =>
        /\ \A c \in comics : Cardinality({m \in metadata : m.comic_id = c.id}) = 1
        /\ \A m \in metadata : \E c \in comics : c.id = m.comic_id

C11_Witness ==
    /\ Called("delete_path") /\ comics # {} /\ comics # before.comics
    /\ \E c \in before.comics :
           /\ c \notin comics
           /\ \E m \in before.metadata : m.comic_id = c.id /\ m \notin metadata
    /\ \E c \in comics : \E m \in metadata : m.comic_id = c.id /\ m.series # NoText

-----------------------------------------------------------------------------
(* Properties of the event monitor.  While the worker dispatches,          *)
(* optimized_tasks is what optimize_tasks returned for batch.              *)

Optimized == pc = "dispatching"

BatchTasks(action) == {t \in Range(batch) : t.action = action}

Kept(task) == task \in Range(optimized_tasks)

(* C12: optimize_tasks drops every scan_file task and every scan_folder    *)
(* task whose path lies under the path of another scan_folder task of the  *)
(* batch, and keeps the topmost scan_folder; [scan_folder(A),              *)
(* scan_file(A/b.cbz), scan_file(A/c.cbz)] optimizes to [scan_folder(A)].  *)
C12_FolderScanCoversScansBelow ==
    Optimized =>
        /\ \A t \in BatchTasks("scan_file") \cup BatchTasks("scan_folder") :
               (\E f \in BatchTasks("scan_folder") : Under(t.path, f.path)) => ~Kept(t)
        /\ \A f \in BatchTasks("scan_folder") :
               (\A g \in BatchTasks("scan_folder") : ~Under(f.path, g.path)) => Kept(f)
        /\ batch = <<MonitorTask("scan_folder", DirA, NoPath),
                     MonitorTask("scan_file", FileOf(DirA), NoPath),
                     MonitorTask("scan_file", FileOf(DirAS), NoPath)>>
               => optimized_tasks = <<MonitorTask("scan_folder", DirA, NoPath)>>

C12_Witness ==
    /\ Optimized
    /\ batch = <<MonitorTask("scan_folder", DirAS, NoPath),
                 MonitorTask("scan_file", FileOf(DirAS), NoPath),
                 MonitorTask("scan_folder", DirA, NoPath)>>
    /\ optimized_tasks = <<MonitorTask("scan_folder", DirA, NoPath)>>

(* C13: optimize_tasks drops every delete task whose path lies under the   *)
(* path of another delete task of the batch and keeps the topmost delete;  *)
(* [delete(A), delete(A/b.cbz)] optimizes to [delete(A)].                  *)
C13_DeleteCoversDeletesBelow ==
    Optimized =>
        /\ \A t \in BatchTasks("delete") :
               (\E d \in BatchTasks("delete") : Under(t.path, d.path)) => ~Kept(t)
        /\ \A d \in BatchTasks("delete") :
               (\A e \in BatchTasks("delete") : ~Under(d.path, e.path)) => Kept(d)
        /\ batch = <<MonitorTask("delete", DirA, NoPath),
                     MonitorTask("delete", FileOf(DirA), NoPath)>>
               => optimized_tasks = <<MonitorTask("delete", DirA, NoPath)>>

C13_Witness ==
    /\ Optimized
    /\ batch = <<MonitorTask("delete", FileOf(DirA), NoPath),
                 MonitorTask("delete", DirA, NoPath)>>
    /\ optimized_tasks = <<MonitorTask("delete", DirA, NoPath)>>

IsMove(t) == t.action = "move"

Duplicates(tasks, actions) ==
    {<<i, j>> \in (1..Len(tasks)) \X (1..Len(tasks)) :
        i < j /\ tasks[i] = tasks[j] /\ tasks[i].action \in actions}

(* C15 as stated: the output of optimize_tasks never contains two tasks    *)
(* with the same action, the same path and the same destination.           *)
C15_NoDuplicateTasks ==
    Optimized =>
        Duplicates(optimized_tasks, {"scan_folder", "scan_file", "delete", "move"}) = {}

(* C15 amended: the output of optimize_tasks never contains two            *)
(* scan_folder, two scan_file or two delete tasks with the same path; the  *)
(* move tasks are kept as they arrived, duplicates included.               *)
C15_NoDuplicateScansOrDeletes ==
    Optimized =>
        /\ Duplicates(optimized_tasks, {"scan_folder", "scan_file", "delete"}) = {}
        /\ Cardinality(Duplicates(optimized_tasks, {"move"}))
               = Cardinality(Duplicates(batch, {"move"}))

C15_Witness ==
    /\ Optimized
    /\ Duplicates(batch, {"scan_file"}) # {}
    /\ \E t \in BatchTasks("scan_file") : Kept(t)
    /\ Len(optimized_tasks) < Len(batch)

(* The positions in worker_log of the tasks dispatched for batch b, and    *)
(* the positions in the dispatch loop they stood at.                       *)
Entries(b) == {i \in 1..Len(worker_log) : worker_log[i].batch = b}

Indexes(b) == {worker_log[i].index : i \in Entries(b)}

(* The dispatch order of the kinds. *)
Rank(action) ==
    CASE action = "delete" -> 1
      [] action = "move" -> 2
      [] action = "scan_folder" -> 3
      [] action = "scan_file" -> 4

(* C16: within every dispatched batch the tasks run in the order deletes,  *)
(* moves, folder scans, file scans: no task of a later kind is executed    *)
(* before a task of an earlier kind of the same batch.                     *)
C16_DispatchOrderByKind ==
    \A i, j \in 1..Len(worker_log) :
        (i < j /\ worker_log[i].batch = worker_log[j].batch)
            => Rank(worker_log[i].task.action) <= Rank(worker_log[j].task.action)

C16_Witness ==
    /\ pc = "dispatching" /\ next_task > Len(optimized_tasks)
    /\ Len(batch) = 3 /\ Len(optimized_tasks) = 3
    /\ batch[1].action = "scan_file" /\ batch[2].action = "move" /\ batch[3].action = "delete"
    /\ Cardinality(Entries(batches)) = 3

(* C17: within a dispatched batch no folder-scan task is dispatched before *)
(* another folder-scan task of the same batch whose path has fewer         *)
(* components.                                                             *)
C17_ShallowestFolderFirst ==
    \A i, j \in 1..Len(worker_log) :
        (/\ i < j /\ worker_log[i].batch = worker_log[j].batch
         /\ worker_log[i].task.action = "scan_folder"
         /\ worker_log[j].task.action = "scan_folder")
            => Len(worker_log[i].task.path) <= Len(worker_log[j].task.path)

(* The worker has left the dispatch loop of batch b. *)
Finished(b) == b < batches \/ (b = batches /\ pc \in {"idle", "waiting", "exited"})

(* C18: when a task of a batch fails during dispatch, the failure is       *)
(* logged and every remaining task of that optimized batch is still        *)
(* executed, and the worker goes on to later batches: a failure never ends *)
(* the worker.                                                             *)
C18_FailureDoesNotStopBatch ==
    /\ \A b \in 1..batches :
           Finished(b) =>
               /\ Entries(b) # {}
               /\ \A i \in Entries(b) : Indexes(b) = 1..worker_log[i].of
    /\ pc = "dispatching" =>
           /\ Indexes(batches) = 1..(next_task - 1)
           /\ \A i \in Entries(batches) :
                  worker_log[i].task = optimized_tasks[worker_log[i].index]
    /\ pc = "exited" => stop_event

C18_Witness ==
    \E i, j, k \in 1..Len(worker_log) :
        /\ i < j /\ j < k
        /\ worker_log[i].batch = worker_log[j].batch
        /\ worker_log[i].failed /\ ~worker_log[j].failed
        /\ worker_log[k].batch > worker_log[j].batch

(* The steps of the worker through its states. *)
CycleSteps ==
    {<<"idle", "waiting">>, <<"idle", "exited">>, <<"waiting", "idle">>,
     <<"waiting", "accumulating">>, <<"accumulating", "optimizing">>,
     <<"optimizing", "dispatching">>, <<"dispatching", "idle">>}

IsPrefix(s, t) == Len(s) <= Len(t) /\ SubSeq(t, 1, Len(s)) = s

(* C19: the worker processes batches one at a time in the cycle Idle ->    *)
(* Accumulating -> Optimizing -> Dispatching -> Idle: every task of one    *)
(* batch has finished dispatching before the first task of the next batch  *)
(* is taken from the queue, and events that arrive while a batch is being  *)
(* optimized or dispatched stay queued for a later batch.                  *)
C19_OneBatchAtATime ==
    [][/\ pc' # pc => <<pc, pc'>> \in CycleSteps
       /\ pc \in {"optimizing", "dispatching"} =>
              /\ batch' = batch
              /\ IsPrefix(task_queue, task_queue')
       /\ batches' # batches =>
              /\ pc = "waiting" /\ batches' = batches + 1
              /\ next_task > Len(optimized_tasks)
              /\ \A b \in 1..batches : \A i \in Entries(b) : Indexes(b) = 1..worker_log[i].of
              /\ batch' = <<Head(task_queue)>>
       /\ worker_log' # worker_log =>
              /\ pc = "dispatching"
              /\ worker_log' = Append(worker_log, worker_log'[Len(worker_log')])
              /\ worker_log'[Len(worker_log')].batch = batches
              /\ worker_log'[Len(worker_log')].task \in Range(optimize_tasks(batch))]_vars

C19_Witness ==
    /\ pc = "dispatching" /\ batches = 2 /\ next_task > 1
    /\ task_queue # <<>>
    /\ Entries(1) # {}

(* C20: the stop signal is examined only between batches: once the worker  *)
(* has taken the first task of a batch it leaves the batch only when every *)
(* task of the optimized batch has been dispatched, the stop signal set or *)
(* not, and it exits only at the test between batches.                     *)
C20_StopOnlyBetweenBatches ==
    [][/\ (pc' = "exited" /\ pc # "exited") => (pc = "idle" /\ stop_event)
       /\ (stop_event /\ pc = "waiting" /\ task_queue # <<>>) => pc' \in {"waiting", "accumulating"}
       /\ (pc \in {"accumulating", "optimizing", "dispatching"}
           /\ pc' \notin {"accumulating", "optimizing", "dispatching"}) =>
              /\ pc = "dispatching" /\ pc' = "idle"
              /\ Indexes(batches) = 1..Len(optimized_tasks)
              /\ optimized_tasks = optimize_tasks(batch)]_vars

C20_Witness ==
    /\ pc = "exited"
    /\ \E i, j \in Entries(batches) :
           /\ i < j
           /\ ~worker_log[i].stop
           /\ worker_log[j].stop

(* The worker is in a batch: it has taken its first task and has not       *)
(* finished dispatching it.                                                *)
InBatch == pc \in {"accumulating", "optimizing", "dispatching"}

(* C21: the window of a batch is fixed when its first task is taken and no *)
(* later arrival moves it; a task joins the batch only while less than     *)
(* BATCH_WINDOW has passed since then, and once the window has passed the  *)
(* batch is closed: what arrives afterwards stays queued for a later       *)
(* batch.                                                                  *)
C21_WindowIsFixed ==
    [][/\ (InBatch /\ pc' # "idle") => start_time' = start_time
       /\ (InBatch /\ batch' # batch) =>
              /\ pc = "accumulating"
              /\ clock - start_time < BATCH_WINDOW
              /\ batch' = Append(batch, Head(task_queue))
       /\ (InBatch /\ clock - start_time >= BATCH_WINDOW) =>
              /\ batch' = batch
              /\ IsPrefix(task_queue, task_queue')
       /\ (pc = "waiting" /\ pc' = "accumulating") => start_time' = clock]_vars

C21_Witness ==
    /\ pc = "optimizing"
    /\ Len(batch) >= 2
    /\ clock - start_time >= BATCH_WINDOW
    /\ task_queue # <<>>
    /\ batches = 1

(* The modified events of the universe that pass the filter of on_modified: *)
(* files with a comic extension whose name does not start with "._".       *)
DebouncedPaths ==
    {e[1] : e \in {m \in DebounceEvents :
                      /\ ~m[2]
                      /\ is_comic_file(m[1])
                      /\ ~StartsWith(Name(m[1]), <<".", "_">>)}}

(* At least debounce_seconds have passed since the last modified event of  *)
(* path that put a task (or there was none).                               *)
Due(path) == path \notin DOMAIN fired \/ clock - fired[path] >= debounce_seconds

(* C22: a modified event of a comic file puts a scan_file task for it if   *)
(* and only if at least debounce_seconds have passed since the last        *)
(* modified event of that same path that put a task; nothing else (other   *)
(* paths' events, the pruning of entries, the worker's window) enters the  *)
(* decision.                                                               *)
C22_DebouncePerPath ==
    [][\A path \in DebouncedPaths :
          on_modified(path, FALSE) =>
              /\ task_queue' = IF Due(path)
                               THEN Append(task_queue, MonitorTask("scan_file", path, NoPath))
                               ELSE task_queue
              /\ fired' = IF Due(path)
                          THEN [k \in (DOMAIN fired) \cup {path} |->
                                   IF k = path THEN clock ELSE fired[k]]
                          ELSE fired]_vars

C22_Witness ==
    /\ pc = "accumulating"
    /\ clock - start_time < BATCH_WINDOW
    /\ batches = 1
    /\ events = MaxEvents
    /\ Len(task_queue) + Len(batch) = 2
    /\ DOMAIN fired = {FileOf(DirA), FileOf(DirAS)}
    /\ fired[FileOf(DirA)] = clock
    /\ fired[FileOf(DirAS)] = clock - 1
    /\ task_queue = <<MonitorTask("scan_file", FileOf(DirA), NoPath)>>

(* The initial scan of serve has been called and has not returned. *)
StartupScanRuns == main = "scanning"

(* The monitor is not there: no worker thread, no event delivered. *)
MonitorAbsent == pc = "unstarted" /\ events = 0 /\ task_queue = <<>>

(* C23: in serve the initial scan_library has returned before the worker   *)
(* thread and the observer are started: while the scan has not returned    *)
(* there is no worker and no event, the scan returns in that state, and    *)
(* the worker dispatches a task only after the scan has returned.          *)
C23_StartupScanBeforeMonitor ==
    [][/\ (main' \in {"start", "scanning"}) => MonitorAbsent'
       /\ (StartupScanRuns /\ ~StartupScanRuns') =>
              MonitorAbsent /\ worker_log' = worker_log /\ lastOp'.op = "scan_library"
       /\ (worker_log' # worker_log) =>
              main \in {"worker_started", "serving"} /\ main' = main]_vars

C23_Witness ==
    /\ main = "serving"
    /\ Len(worker_log) = 1
    /\ ~worker_log[1].failed
    /\ lastOp.op = "scan_folder"
    /\ now = 3
    /\ comics # {}

IsHidden(path) == StartsWith(Name(path), <<".", "_">>)

(* No queued task is for a name starting with "._" *)
NoHiddenTask(queue) ==
    \A i \in 1..Len(queue) :
        /\ ~IsHidden(queue[i].path)
        /\ queue[i].action = "move" => ~IsHidden(queue[i].dest_path)

(* C24: the handler never puts a task for a path whose name starts with    *)
(* "._" (for a move: the source's or the destination's name); a created    *)
(* event puts scan_folder for a directory, scan_file for a file with the   *)
(* extension .cbz or .cbr (in any letter case) and nothing for any other   *)
(* file.                                                                   *)
C24_HandlerFilters ==
    [][/\ NoHiddenTask(task_queue')
       /\ \A e \in HandlerCreated :
              on_created(e[1], e[2]) =>
                  /\ IsHidden(e[1]) => task_queue' = task_queue
                  /\ (~IsHidden(e[1]) /\ e[2]) =>
                         task_queue' = Append(task_queue, MonitorTask("scan_folder", e[1], NoPath))
                  /\ (~IsHidden(e[1]) /\ ~e[2]
                        /\ LowerStr(Suffix(e[1])) \in {<<".", "c", "b", "z">>, <<".", "c", "b", "r">>}) =>
                         task_queue' = Append(task_queue, MonitorTask("scan_file", e[1], NoPath))
                  /\ (~e[2]
                        /\ LowerStr(Suffix(e[1])) \notin {<<".", "c", "b", "z">>, <<".", "c", "b", "r">>}) =>
                         task_queue' = task_queue
       /\ \A e \in HandlerMoved :
              (on_moved(e[1], e[2]) /\ (IsHidden(e[1]) \/ IsHidden(e[2]))) =>
                  task_queue' = task_queue]_vars

C24_Witness ==
    /\ events = MaxEvents
    /\ task_queue = <<MonitorTask("scan_folder", DirA, NoPath),
                      MonitorTask("scan_file", DirA \o <<Upper>>, NoPath)>>

(* The files the last call has indexed: processed to the end, an Item      *)
(* upserted.                                                               *)
Indexed == {e.path : e \in {l \in lastOp.log : l.outcome = "processed"}}

(* C25: a scan that walks a directory tree (scan_library, scan_folder)     *)
(* indexes no file whose own name, or the name of a directory between the  *)
(* scan target and the file, is an ignore pattern or starts with "._"      *)
C25_WalksHonourIgnores ==
    (lastOp.op \in {"scan_library", "scan_folder"} /\ ~lastOp.failed) =>
        \A path \in Indexed : Reached(path, lastOp.path)

(* The entries of a log for the files whose stat failed. *)
StatFailed(log) == {e \in log : e.outcome = "unstatable"}

(* The files on disk that a walk of base reaches. *)
Walked(base) == {f \in DOMAIN files : is_comic_file(f) /\ Reached(f, base)}

(* C26: when stat of a walked file fails in scan_library, the Items and    *)
(* the Metadata of that path stay as they were, the file is counted as     *)
(* skipped, every other walked file is still processed, and nothing is     *)
(* remembered of the failure: in the scan that follows a scan in which     *)
(* stat failed, a file that can be read gets the skip decision that its    *)
(* Item, its modification time and force give.                             *)
C26_StatFailureSkipsFile ==
    [][(now' = now + 1 /\ lastOp'.op = "scan_library" /\ ~lastOp'.failed) =>
          /\ \A e \in StatFailed(lastOp'.log) :
                 /\ ItemsAt(comics', e.path) = ItemsAt(comics, e.path)
                 /\ MetadataAt(comics', metadata', e.path) = MetadataAt(comics, metadata, e.path)
                 /\ e.skipped
          /\ lastOp'.stats.skipped = Cardinality({e \in lastOp'.log : e.skipped})
          /\ \A f \in Walked(lastOp'.path) : \E e \in lastOp'.log : e.path = f
          /\ lastOp.op = "scan_library" =>
                 \A old \in StatFailed(lastOp.log) :
                     \A e \in lastOp'.log \ StatFailed(lastOp'.log) :
                         e.path = old.path =>
                             (e.outcome = "unchanged" <=>
                                  _should_skip_comic(Session, get_comic_by_path(Session, e.path),
                                                     files[e.path].mtime, lastOp'.force))]_vars

C26_Witness ==
    /\ ScanCompleted
    /\ \E e \in StatFailed(lastOp.log) :
           /\ ItemsAt(comics, e.path) # {}
           /\ MetadataAt(comics, metadata, e.path) # {}
    /\ \E e \in lastOp.log : e.outcome = "processed" /\ e.existing
    /\ lastOp.stats.skipped = 1

(* The entries of the last call for the files that were processed to the   *)
(* end although no thumbnail could be made.                                *)
ThumbnailFailed == {e \in lastOp.log : e.outcome = "processed" /\ ~e.thumb}

(* The Item of the entry is there with the file's size and modification    *)
(* time, and so is its Metadata.                                           *)
Completed(e) ==
    /\ ItemsAt(comics, e.path) # {}
    /\ \A c \in ItemsAt(comics, e.path) :
           /\ c.file_modified_at = files[e.path].mtime
           /\ c.file_size = files[e.path].content.size
           /\ c.uuid = e.uuid
    /\ MetadataAt(comics, metadata, e.path) # {}

(* C27 as stated: when thumbnail generation fails while an Item is         *)
(* processed, processing completes and afterwards the Item's flag is       *)
(* false.                                                                  *)
C27_FailedThumbnailClearsFlag ==
    (Processed /\ ~lastOp.failed) =>
        \A e \in ThumbnailFailed :
            /\ Completed(e)
            /\ \A c \in ItemsAt(comics, e.path) : ~c.thumbnail_generated

(* C27 amended: processing completes, and afterwards the flag of a new     *)
(* Item is false while an Item that existed keeps the flag it had.         *)
C27_FailedThumbnailKeepsFlag ==
    (Processed /\ ~lastOp.failed) =>
        \A e \in ThumbnailFailed :
            /\ Completed(e)
            /\ \A c \in ItemsAt(comics, e.path) :
                   c.thumbnail_generated =
                       (\E b \in before.comics : b.uuid = c.uuid /\ b.thumbnail_generated)

C27_Witness ==
    /\ Processed /\ ~lastOp.failed
    /\ \E e \in ThumbnailFailed :
           /\ e.existing
           /\ \A c \in ItemsAt(comics, e.path) : c.thumbnail_generated /\ c.uuid \in thumbs

(* The stored path is relative to the library root: it is not an absolute  *)
(* path, joined to the root it lies at or under the root, and the relative *)
(* path of that is the stored path again.                                  *)
RelativeToRoot(path) ==
    /\ path # <<>>
    /\ path[1] # Slash
    /\ IsRelativeTo(to_absolute(path, LibraryRoot), LibraryRoot)
    /\ to_relative(to_absolute(path, LibraryRoot), LibraryRoot) = path

(* C28: every Item path and every Folder path in the index is relative to  *)
(* the library root, never an absolute path.                               *)
C28_PathsRelativeToRoot ==
    /\ \A c \in comics : RelativeToRoot(c.path)
    /\ \A f \in folders : RelativeToRoot(f.path)

(* The Folders reached from the Folder by following parent references, at  *)
(* most steps times.                                                       *)
RECURSIVE AncestorIds(_, _, _)
AncestorIds(rows, ids, steps) ==
    IF steps = 0 THEN ids
    ELSE AncestorIds(rows,
                     ids \cup {f.parent_id : f \in {g \in rows : g.id \in ids /\ g.parent_id # Null}},
                     steps - 1)

ProperAncestorIds(rows, folder) ==
    IF folder.parent_id = Null THEN {}
    ELSE AncestorIds(rows, {folder.parent_id}, Cardinality(rows))

FolderTree(rows) ==
    /\ \A f, g \in rows : f.path = g.path => f = g
    /\ \A f, g \in rows : f.id = g.id => f = g
    /\ \A f \in rows : f.parent_id = Null \/ \E g \in rows : g.id = f.parent_id
    /\ \A f \in rows : f.id \notin ProperAncestorIds(rows, f)

(* C29: in every state of the index, so after every operation that        *)
(* changes folders, Folder paths are unique, every parent reference is     *)
(* empty or is the id of a Folder in the index, and no Folder is reached   *)
(* from itself by following parent references.                             *)
C29_FoldersFormForest == FolderTree(folders)

C29_Witness ==
    /\ lastOp.op = "move_path"
    /\ ~lastOp.failed
    /\ IsDir(lastOp.dest)
    /\ \E f \in folders, b \in before.folders :
           /\ f.id = b.id
           /\ f.path # b.path
           /\ b.path = to_relative(lastOp.path, LibraryRoot)
           /\ f.path = to_relative(lastOp.dest, LibraryRoot)
           /\ \E g \in folders : g.parent_id = f.id
    /\ Cardinality(folders) >= 3

(* The directories get_or_create_folder is asked for. *)
FolderPaths == {LibraryRoot, DirA, DirAS, DirB, DirBS, DirUpA, DirUpAS}

(* The directory and the directories above it, up to the library root. *)
UpToRoot(path) == {SubSeq(path, 1, n) : n \in Len(LibraryRoot)..Len(path)}

IsIndexed(path) == FolderAt(Session, to_relative(path, LibraryRoot)) # {}

(* get_or_create_folder(path) on the index as it is returns the Folder of  *)
(* the path and changes nothing when there is one; otherwise it adds one   *)
(* Folder for the path and one for each directory above it, up to the      *)
(* root, that has none, each with its parent directory's Folder as parent  *)
(* (none for the root), and changes nothing else.                          *)
CreatesMissingChain(path) ==
    LET r == get_or_create_folder(Session, path)
        rel == to_relative(path, LibraryRoot)
        created == r.W.folders \ folders
        missing == {q \in UpToRoot(path) : ~IsIndexed(q)}
    IN  IF IsIndexed(path)
        THEN r.W = Session /\ r.folder \in folders /\ r.folder.path = rel
        ELSE /\ folders \subseteq r.W.folders
             /\ r.W.comics = comics /\ r.W.metadata = metadata /\ r.W.thumbs = thumbs
             /\ r.W.saved = Session.saved
             /\ Cardinality(created) = Cardinality(missing)
             /\ {to_absolute(f.path, LibraryRoot) : f \in created} = missing
             /\ r.folder \in created /\ r.folder.path = rel
             /\ \A f \in created :
                    LET abs == to_absolute(f.path, LibraryRoot)
                    IN  IF abs = LibraryRoot THEN f.parent_id = Null
                        ELSE \E g \in r.W.folders :
                                 /\ g.path = to_relative(Parent(abs), LibraryRoot)
                                 /\ f.parent_id = g.id

(* C30: get_or_create_folder(p) for a path that has a Folder returns that  *)
(* Folder and changes nothing; for a new path it creates exactly one       *)
(* Folder for p and one for each directory above it up to the library root *)
(* that is not indexed, each linked to its parent directory's Folder.      *)
C30_GetOrCreateFolder == \A path \in FolderPaths : CreatesMissingChain(path)

C30_Witness ==
    /\ IsIndexed(DirA) /\ IsIndexed(LibraryRoot)
    /\ ~IsIndexed(DirAS)
    /\ ~IsIndexed(DirBS) /\ ~IsIndexed(DirB)
    /\ Cardinality(get_or_create_folder(Session, DirBS).W.folders \ folders) = 2
    /\ lastOp.op \in {"scan_file", "scan_folder", "scan_library"}
    /\ folders # before.folders

-----------------------------------------------------------------------------
(* The wrappers that open the file of the last get_archive call. *)
Openable ==
    {w \in {"zip", "rar"} : Opens(w, lastOp.path, lastOp.rarfile)}

(* C31: get_archive raises FileNotFoundError for a path that does not      *)
(* exist and ValueError for a suffix that is neither .cbz nor .cbr in any  *)
(* letter case; otherwise it returns the wrapper of the suffix when that   *)
(* opens the file, else the other wrapper when that opens it, and raises   *)
(* only when neither opens it.                                             *)
C31_GetArchiveFallback ==
    lastOp.op = "get_archive" =>
        LET r == lastOp.result
            suffix == LowerStr(Suffix(lastOp.path))
            primary == IF suffix = <<".", "c", "b", "z">> THEN "zip" ELSE "rar"
        IN  IF ~Exists(lastOp.path) THEN r.raised = "FileNotFoundError"
            ELSE IF suffix \notin {<<".", "c", "b", "z">>, <<".", "c", "b", "r">>}
            THEN r.raised = "ValueError"
            ELSE /\ r.raised = "none" <=> Openable # {}
                 /\ r.raised \notin {"FileNotFoundError", "ValueError"}
                 /\ r.opened \in Openable \cup {"none"}
                 /\ primary \in Openable => r.opened = primary

C31_Witness ==
    /\ lastOp.op = "get_archive"
    /\ Name(lastOp.path) = Upper
    /\ BytesAt(lastOp.path) = "rar"
    /\ lastOp.result.opened = "rar"

-----------------------------------------------------------------------------
(* The last call extracted a sidecar. *)
Extracted == lastOp.op \in {"read_comicinfo_from_archive", "parse_comicinfo_xml"}

(* The sidecar the last call was given: none when the file is missing or   *)
(* no reader opens it.                                                     *)
SidecarGiven ==
    IF ~IsFile(lastOp.path) THEN NoSidecar
    ELSE IF /\ lastOp.op = "read_comicinfo_from_archive"
            /\ get_archive(lastOp.path, lastOp.rarfile).raised # "none"
    THEN NoSidecar
    ELSE FileAt(lastOp.path).content.info

(* C32: every extraction returns a record and raises nothing; its title is *)
(* the text of the Title tag or absent, its issue number the integer the   *)
(* Issue tag's text denotes and absent when the text denotes none; a       *)
(* missing, an empty and a malformed sidecar give the record with every    *)
(* field absent.                                                           *)
C32_ExtractionNeverFails ==
    Extracted =>
        LET r == lastOp.result
            info == SidecarGiven
        IN  /\ ~r.raised
            /\ r.title \in {NoText, info.Title}
            /\ IsIntLiteral(info.Issue) => r.issue_number \in {<<>>, <<IntValue(info.Issue)>>}
            /\ ~IsIntLiteral(info.Issue) => r.issue_number = <<>>
            /\ (~info.present \/ info.form \in {"blank", "malformed"}) =>
                   r.title = NoText /\ r.issue_number = <<>>

-----------------------------------------------------------------------------
(* C33: scan_library raises exactly when its target does not exist, and    *)
(* then the index and the thumbnails are as they were; a scan of a target  *)
(* that exists runs to its end whatever its files are.                     *)
C33_OnlyMissingTargetAborts ==
    Called("scan_library") =>
        /\ lastOp.failed <=> ~Exists(lastOp.path)
        /\ lastOp.failed => Snapshot = before

-----------------------------------------------------------------------------
(* Every change made to the library since the startup scan was reported,   *)
(* its task was taken into the first batch, and that batch has been        *)
(* dispatched.                                                             *)
OneBatchDispatched ==
    /\ main = "serving"
    /\ fsOps > 0 /\ events = fsOps
    /\ batches = 1 /\ Len(batch) = fsOps
    /\ task_queue = <<>>
    /\ pc = "idle"
    /\ Len(worker_log) = Len(optimized_tasks)

ComicFilesOnDisk == {f \in DOMAIN files : is_comic_file(f)}

(* C34: when created, deleted and moved events of comic files have fallen  *)
(* into one batch and the batch has been dispatched, the index holds an    *)
(* Item at a path exactly when a comic file is at that path on disk.       *)
C34_BatchLeavesIndexInSync ==
    OneBatchDispatched => ItemPaths = ComicFilesOnDisk

-----------------------------------------------------------------------------
(* The directory a was renamed to b, the move of the directory and of each *)
(* file below it were taken into one batch, and the batch was dispatched.  *)
DirMoveDispatched ==
    /\ fsOps = 1 /\ DirB \in dirs /\ DirA \notin dirs
    /\ batches = 1
    /\ Len(batch) = 1 + Cardinality({f \in DOMAIN files : IsRelativeTo(f, DirB)})
    /\ task_queue = <<>>
    /\ pc = "idle"
    /\ Len(worker_log) = Len(optimized_tasks)

(* C35: after a directory move and the moves of the files below it were    *)
(* dispatched, in whichever order they were queued, each file below the    *)
(* new directory has exactly one Item, at its new path; no Item is left    *)
(* below the old directory; the identifiers are the ones issued before the *)
(* move (none was issued since, and each is still that of an Item); the    *)
(* index has a Folder at the new path and none at the old one.             *)
C35_DirectoryMoveEitherOrder ==
    DirMoveDispatched =>
        /\ \A f \in ComicFilesOnDisk : Cardinality(ItemsAt(comics, f)) = 1
        /\ ItemPaths = ComicFilesOnDisk
        /\ {c.uuid : c \in comics} = 1..(nextUuid - 1)
        /\ Cardinality(comics) = nextUuid - 1
        /\ \E f \in folders : f.path = to_relative(DirB, LibraryRoot)
        /\ ~\E f \in folders : f.path = to_relative(DirA, LibraryRoot)

-----------------------------------------------------------------------------
(* C36: after move_path for the move of a comic file whose Item was        *)
(* indexed at the source and whose file is no longer at the source, no     *)
(* Item is indexed at the source, whatever the destination is.             *)
C36_FileMoveClearsSource ==
    (/\ Called("move_path")
     /\ is_comic_file(lastOp.path)
     /\ ItemsAt(before.comics, lastOp.path) # {}
     /\ ~Exists(lastOp.path))
    => ItemsAt(comics, lastOp.path) = {}

-----------------------------------------------------------------------------
(* C37: after delete_path of a path that is_comic_file accepts and that is *)
(* not on disk, no Item has that path and the thumbnails of the Items that *)
(* had it are removed.                                                     *)
C37_DeletedComicLeavesIndex ==
    (Called("delete_path") /\ is_comic_file(lastOp.path) /\ ~Exists(lastOp.path)) =>
        /\ ItemsAt(comics, lastOp.path) = {}
        /\ \A c \in ItemsAt(before.comics, lastOp.path) : c.uuid \notin thumbs

-----------------------------------------------------------------------------
(* The relative path p is rel or lies below it. *)
AtOrUnder(p, rel) == p = rel \/ StartsWith(p, rel \o <<Slash>>)

(* C38: delete_path of a folder removes the Items and the Folders whose    *)
(* relative path is the folder's or lies below it, and leaves every other  *)
(* Item and Folder as it was.                                              *)
C38_FolderDeleteIsExact ==
    (Called("delete_path") /\ ~is_comic_file(lastOp.path)) =>
        LET rel == to_relative(lastOp.path, LibraryRoot)
        IN  /\ comics = {c \in before.comics : ~AtOrUnder(c.path, rel)}
            /\ folders = {f \in before.folders : ~AtOrUnder(f.path, rel)}

-----------------------------------------------------------------------------
(* The Item's relative path lies in the subtree the last scan was given. *)
InScanned(c) ==
    lastOp.path = LibraryRoot \/ AtOrUnder(c.path, to_relative(lastOp.path, LibraryRoot))

(* The file of the Item is on disk and its archive opens. *)
FileIsValid(c) ==
    /\ IsFile(to_absolute(c.path, LibraryRoot))
    /\ FileAt(to_absolute(c.path, LibraryRoot)).content.valid

(* C39: scan_library of a subtree deletes no Item whose file is on disk    *)
(* and opens, and leaves every Item whose path is outside the subtree as   *)
(* it was: none is created, changed or deleted.                            *)
C39_SubtreeScanFrame ==
    ScanCompleted =>
        /\ \A c \in before.comics : FileIsValid(c) => \E d \in comics : d.uuid = c.uuid
        /\ \A c \in before.comics : ~InScanned(c) => c \in comics
        /\ \A c \in comics : ~InScanned(c) => c \in before.comics

-----------------------------------------------------------------------------
(* A step that takes the first queued task into the batch. *)
Take ==
    /\ task_queue # <<>>
    /\ task_queue' = Tail(task_queue)
    /\ batch' \in {<<Head(task_queue)>>, Append(batch, Head(task_queue))}

(* A step that puts tasks at the end of the queue. *)
Put == Len(task_queue') > Len(task_queue) /\ SubSeq(task_queue', 1, Len(task_queue)) = task_queue

(* The dispatch loop of the current batch has ended. *)
BatchDone == pc = "dispatching" /\ next_task > Len(optimized_tasks)

(* The retained task stands for the task: it is the same task, a folder    *)
(* scan at or above a scan, or a delete at or above a delete.              *)
Covers(retained, task) ==
    \/ retained = task
    \/ /\ retained.action = "scan_folder"
       /\ task.action \in {"scan_folder", "scan_file"}
       /\ IsRelativeTo(task.path, retained.path)
    \/ /\ retained.action = "delete"
       /\ task.action = "delete"
       /\ IsRelativeTo(task.path, retained.path)

(* Every task of the current batch was dispatched in it or is covered by a *)
(* task that was.                                                          *)
BatchSettled ==
    \A i \in 1..Len(batch) :
        \E k \in 1..Len(worker_log) :
            /\ worker_log[k].batch = batches
            /\ worker_log[k].task \in Range(optimized_tasks)
            /\ Covers(worker_log[k].task, batch[i])

(* C40: when the stop signal is never set and every dispatched call        *)
(* returns, no task leaves the queue but into a batch, and every queued    *)
(* task is eventually in a batch that has been dispatched to its end, each *)
(* task of the batch dispatched or covered by a dispatched task of the     *)
(* same batch.                                                             *)
C40_QueuedTasksAreSettled ==
    /\ [][task_queue' # task_queue => Take \/ Put]_vars
    /\ \A task \in LiveTasks :
           (task \in Range(task_queue)) ~> (BatchDone /\ task \in Range(batch) /\ BatchSettled)
    /\ [](BatchDone => BatchSettled)

(* A batch was dispatched to its end in which a task was dropped. *)
C40_Witness ==
    /\ BatchDone
    /\ BatchSettled
    /\ Len(optimized_tasks) < Len(batch)
    /\ \E i \in 1..Len(batch) : batch[i] \notin Range(optimized_tasks)

====
